---- MODULE Spec2Model ----
(***************************************************************************)
(* Model of the insolvency ingestion pipeline.                             *)
(*                                                                         *)
(* Part I  : messagesearch_day, the multi-strategy gazette search          *)
(*           (microservices/statstidende/main.py; the stand-alone script   *)
(*           statstidende/statstidende.py holds the same routine).         *)
(* Part II : run_daily_sync and the three upserts of the aggregator        *)
(*           (microservices/aggregator/main.py).                           *)
(***************************************************************************)
EXTENDS Integers, Sequences, FiniteSets, TLC

(***************************************************************************)
(* Bounds of the model.                                                    *)
(***************************************************************************)
\* largest pageCount the upstream reports
MaxPages == 3
\* largest number of results on one page
MaxItems == 1
\* longest list of cases of a day
MaxCases == 2
\* largest number of case rows without a message number
MaxNullRows == 2
\* longest list of notices a day's search returns to the filter
MaxNotices == 3
\* runs of fetch_daily_insolvencies in a behaviour
MaxRuns == 2

\* longest document (in elements) handed to an asset extractor
MaxElements == 2
\* calls of start_scheduler and shutdown_scheduler, and 06:00 triggers,
\* in a behaviour
MaxEvents == 5
\* longest list of hits ("enheder") a registry search answers with
MaxHits == 2
\* calls of the registry functions in a behaviour
MaxLookups == 2

VARIABLES
    \* ---- Part I: messagesearch_day ----
    attempt,      \* index in attempts of the strategy being tried
    page,         \* page the next request of try_one asks for
    page_count,   \* try_one's page_count, read from page 0
    results,      \* try_one's local results list
    last_err,     \* messagesearch_day's last_err
    outcome,      \* "running", "returned" or "raised"
    out,          \* the dict returned, or the exception raised
    reqlog,       \* history: every request issued by this call, in order
    got,          \* history: the pages the running try_one has read, in order
    \* ---- Part II: run_daily_sync ----
    env,          \* the deployment and what the upstreams may answer; never changes
    db,           \* the committed rows: [lawyers, companies, cases]
    sess,         \* the rows the run's session sees: db and its flushed writes
    insolvencies, \* the list of cases of the run
    index,        \* number of cases of the list whose round of the loop ended
    run_pc,       \* "idle", "loop", "commit" or "done"
    run_outcome,  \* "none", "returned" or "raised"
    run_result,   \* what run_daily_sync returned to its caller
    fetch_res,    \* what the listing fetch of the run came to
    attempted,    \* history: the cases process_insolvency_case was called for
    last,         \* history: the case processed last and what it raised
    rolled,       \* history: positions in the list of the cases rolled back
    again,        \* the day is being ingested a second time
    answers,      \* history: the answers given to the first ingestion
    first_count,  \* history: number of case rows when the second one began
    \* ---- Part III: fetch_daily_insolvencies ----
    lg_pc,        \* "idle", "item", "enrich", "assets" or "done"
    lg_records,   \* the records of the run
    lg_i,         \* number of records whose round of the loop ended
    lg_db,        \* the committed rows: [insolvencies, lawyers, links, assets]
    lg_sess,      \* the rows the session of the run sees
    lg_cur,       \* the insolvency and the lawyer of the record in progress
    lg_outcome,   \* "none", "returned" or "raised"
    lg_calls,     \* history: the upstream calls of the run, in order
    lg_created,   \* the local created
    lg_updated,   \* the local updated
    lg_result,    \* the dict returned to the caller, NoCounts when there is none
    lg_same,      \* history: the run has the records of the run before it
    lg_runs,      \* history: the runs started
    ov_db,        \* overlapping runs: the committed rows
    ov_run,       \* overlapping runs: the state of each run_daily_sync task
    \* ---- Part IV: api_messages_dekret ----
    dk_pc,        \* "idle", "loop" or "done"
    dk_search,    \* the results of the day's search
    dk_hits,      \* the list hits
    dk_pos,       \* number of hits whose round of the loop ended
    dk_enriched,  \* the list enriched
    dk_out,       \* the dict returned
    dk_outcome,   \* "none", "returned" or "raised"
    dk_fetched,   \* history: the message numbers get_message_full was called for
    \* ---- Part V: normalize_document_inplace ----
    nd_message,   \* the dict message
    nd_input,     \* history: the message as it was passed
    nd_outcome,   \* "none", "returned" or the exception raised
    \* ---- Part VI: the asset extractors ----
    ax_doc,       \* xml_content, the same for every call
    ax_tags,      \* the module's table ASSET_TAGS
    ax_out,       \* what the last call of parse_xbrl_assets came to
    ax_first,     \* history: what its first call came to
    ax_calls,     \* its calls so far
    fx_out,       \* what the last call of Fetch.parse_xbrl_assets came to
    fx_first,     \* history: what its first call came to
    fx_calls,     \* its calls so far
    \* ---- Part VIII: the scheduler of the aggregator ----
    sc_made,      \* the BackgroundScheduler objects created, in order
    _scheduler,   \* the module's global _scheduler: an index of sc_made
    sc_ret,       \* what the latest call of start_scheduler returned
    sc_invoked,   \* the job functions invoked at the latest 06:00 trigger
    sc_hist,      \* history: the calls and triggers so far, in order
    \* ---- Part IX: the registry functions ----
    cv_cached,    \* the lru_cache of _ensure_cookies holds a result
    cv_call,      \* the latest call: function, implementation, answers
    cv_log,       \* the requests the latest call issued, in order
    cv_ret,       \* what the latest call returned or raised
    cv_calls      \* history: the calls so far

searchVars ==
    <<attempt, page, page_count, results, last_err, outcome, out, reqlog, got>>

syncVars ==
    <<env, db, sess, insolvencies, index, run_pc, run_outcome, run_result, fetch_res,
      attempted, last, rolled, again, answers, first_count>>

legacyVars ==
    <<lg_pc, lg_records, lg_i, lg_db, lg_sess, lg_cur, lg_outcome, lg_calls,
      lg_created, lg_updated, lg_result, lg_same, lg_runs>>

dekretVars ==
    <<dk_pc, dk_search, dk_hits, dk_pos, dk_enriched, dk_out, dk_outcome, dk_fetched>>

normVars == <<nd_message, nd_input, nd_outcome>>

extractVars ==
    <<ax_doc, ax_tags, ax_out, ax_first, ax_calls, fx_out, fx_first, fx_calls>>

overlapVars == <<ov_db, ov_run>>

schedVars == <<sc_made, _scheduler, sc_ret, sc_invoked, sc_hist>>

cvrVars == <<cv_cached, cv_call, cv_log, cv_ret, cv_calls>>

serviceVars == <<overlapVars, schedVars, cvrVars>>

vars ==
    <<searchVars, syncVars, legacyVars, dekretVars, normVars, extractVars, serviceVars>>

(***************************************************************************)
(* Part I.  messagesearch_day                                              *)
(***************************************************************************)

\* Python's None for last_err / out
NoErr == [type |-> "None", status |-> 0, attempt |-> 0]

\* RuntimeError("messagesearch failed for all parameter combinations")
RuntimeError == [type |-> "RuntimeError", status |-> 0, attempt |-> 0]

\* the fallback ladder: (ps, o, include_m)
attempts_permissive_first ==
    << <<50, 0, FALSE>>,
       <<10, 0, FALSE>>,
       <<20, 40, FALSE>>,
       <<10, 40, FALSE>>,
       <<10, 40, TRUE>> >>

attempts ==
    << <<10, 40, TRUE>>,
       <<10, 40, FALSE>>,
       <<20, 40, FALSE>>,
       <<10, 0, FALSE>>,
       <<50, 0, FALSE>> >>

\* the query of one request; date_iso is the same in every request of a call
build_params(pg, ps, o, include_m) ==
    [page |-> pg, ps |-> ps, o |-> o, m |-> include_m]

\* what a request of strategy a for page pg sends
ParamsOf_first_only(a, pg) ==
    IF pg = 0
    THEN build_params(pg, attempts[a][1], attempts[a][2], attempts[a][3])
    ELSE build_params(pg, attempts[1][1], attempts[1][2], attempts[1][3])

ParamsOf(a, pg) == build_params(pg, attempts[a][1], attempts[a][2], attempts[a][3])

\* The upstream's answer to a request with query p: a connection error or
\* timeout, a non-success status, or status 200 with a body that does not
\* decode or with a JSON object.  The items of a page are tagged with the
\* query they were served for.  A page count of 0 comes with no results;
\* pageCount may be absent from the object.
Items(p, n) == [k \in 1..n |-> [req |-> p, k |-> k]]

Bodies(p) ==
    IF p.page = 0
    THEN {[ok |-> TRUE, hasPageCount |-> TRUE, pageCount |-> c, results |-> Items(p, n)] :
              c \in 1..MaxPages, n \in 0..MaxItems}
         \cup {[ok |-> TRUE, hasPageCount |-> TRUE, pageCount |-> 0, results |-> <<>>]}
         \cup {[ok |-> TRUE, hasPageCount |-> FALSE, pageCount |-> 0, results |-> Items(p, n)] :
              n \in 0..MaxItems}
    ELSE {[ok |-> TRUE, hasPageCount |-> FALSE, pageCount |-> 0, results |-> Items(p, n)] :
              n \in 0..MaxItems}

Undecodable == [ok |-> FALSE, hasPageCount |-> FALSE, pageCount |-> 0, results |-> <<>>]

Upstream(p) ==
    {[kind |-> "timeout", status |-> 0, body |-> Undecodable]}
    \cup {[kind |-> "http", status |-> s, body |-> Undecodable] : s \in {404, 500}}
    \cup {[kind |-> "http", status |-> 200, body |-> b] : b \in Bodies(p) \cup {Undecodable}}

\* What one request of try_one comes to, in the order of the code:
\* session.get raises; status 500 gives None; raise_for_status raises
\* HTTPError on 4xx/5xx; r.json() raises on a body that does not decode.
Classify(r) ==
    IF r.kind = "timeout" THEN "ConnectionError"
    ELSE IF r.status = 500 THEN "fault"
    ELSE IF r.status >= 400 /\ r.status < 600 THEN "HTTPError"
    ELSE IF ~r.body.ok THEN "JSONDecodeError"
    ELSE "ok"

\* the exception classes the loop over attempts catches
Caught == {"HTTPError"}

\* int(data.get("pageCount", 1))
PageCountOf(data) == IF data.hasPageCount THEN data.pageCount ELSE 1

\* range(1, page_count)
PageRange_short(pc) == 1..(pc - 2)

PageRange_over(pc) == 1..pc

PageRange(pc) == 1..(pc - 1)

\* results = list(data.get("results", []))
FirstPage(data) == data.results

\* results.extend(dd.get("results", []))
Extend(res, dd) == res \o dd.results

LogEntry(r, p) == [attempt |-> attempt, params |-> p, res |-> Classify(r)]

\* try_one returns its dict and messagesearch_day returns it
Return(res, pc) ==
    /\ outcome' = "returned"
    /\ out' = [type |-> "dict", status |-> 0, attempt |-> 0,
               pageCount |-> pc, resultCount |-> Len(res), results |-> res]
    /\ results' = res
    /\ page_count' = pc
    /\ UNCHANGED <<attempt, page, last_err>>

\* an exception leaves messagesearch_day
Raise(e) ==
    /\ outcome' = "raised"
    /\ out' = e
    /\ page_count' = 0
    /\ results' = <<>>
    /\ got' = <<>>
    /\ UNCHANGED <<attempt, page, last_err>>

\* the loop over attempts goes on after try_one returned None (e = NoErr) or
\* raised a caught exception e; after the last attempt last_err is raised,
\* or RuntimeError when there is none
NextAttempt_stop(e) ==
    LET le == IF e = NoErr THEN last_err ELSE e IN
    IF attempt < Len(attempts) /\ e = NoErr
    THEN /\ attempt' = attempt + 1
         /\ page' = 0
         /\ last_err' = le
         /\ page_count' = 0
         /\ results' = <<>>
         /\ got' = <<>>
         /\ UNCHANGED <<outcome, out>>
    ELSE /\ last_err' = le
         /\ outcome' = "raised"
         /\ out' = IF le # NoErr THEN le ELSE RuntimeError
         /\ page_count' = 0
         /\ results' = <<>>
         /\ got' = <<>>
         /\ UNCHANGED <<attempt, page>>

NextAttempt_forget(e) ==
    LET le == e IN
    IF attempt < Len(attempts)
    THEN /\ attempt' = attempt + 1
         /\ page' = 0
         /\ last_err' = le
         /\ page_count' = 0
         /\ results' = <<>>
         /\ got' = <<>>
         /\ UNCHANGED <<outcome, out>>
    ELSE /\ last_err' = le
         /\ outcome' = "raised"
         /\ out' = IF le # NoErr THEN le ELSE RuntimeError
         /\ page_count' = 0
         /\ results' = <<>>
         /\ got' = <<>>
         /\ UNCHANGED <<attempt, page>>

NextAttempt(e) ==
    LET le == IF e = NoErr THEN last_err ELSE e IN
    IF attempt < Len(attempts)
    THEN /\ attempt' = attempt + 1
         /\ page' = 0
         /\ last_err' = le
         /\ page_count' = 0
         /\ results' = <<>>
         /\ got' = <<>>
         /\ UNCHANGED <<outcome, out>>
    ELSE /\ last_err' = le
         /\ outcome' = "raised"
         /\ out' = IF le # NoErr THEN le ELSE RuntimeError
         /\ page_count' = 0
         /\ results' = <<>>
         /\ got' = <<>>
         /\ UNCHANGED <<attempt, page>>

\* a request of try_one did not succeed
Failed(r) ==
    LET c == Classify(r) IN
    IF c = "fault" THEN NextAttempt(NoErr)
    ELSE IF c \in Caught
         THEN NextAttempt([type |-> c, status |-> r.status, attempt |-> attempt])
         ELSE Raise([type |-> c, status |-> r.status, attempt |-> attempt])

\* after a page was read: the next page of the range, or the return
Advance(res, pc, pg) ==
    IF pg + 1 \in PageRange(pc)
    THEN /\ page' = pg + 1
         /\ results' = res
         /\ page_count' = pc
         /\ UNCHANGED <<attempt, last_err, outcome, out>>
    ELSE Return(res, pc)

\* try_one up to and including its request for page 0
try_one_page0 ==
    /\ outcome = "running"
    /\ page = 0
    /\ UNCHANGED syncVars
    /\ UNCHANGED legacyVars
    /\ UNCHANGED dekretVars
    /\ UNCHANGED normVars
    /\ UNCHANGED serviceVars
    /\ UNCHANGED extractVars
    /\ LET p == ParamsOf(attempt, 0) IN
       \E r \in Upstream(p) :
          /\ reqlog' = Append(reqlog, LogEntry(r, p))
          /\ IF Classify(r) = "ok"
             THEN /\ got' = <<r.body.results>>
                  /\ Advance(FirstPage(r.body), PageCountOf(r.body), 0)
             ELSE Failed(r)

\* one round of try_one's loop over the remaining pages
try_one_next_page ==
    /\ outcome = "running"
    /\ page > 0
    /\ UNCHANGED syncVars
    /\ UNCHANGED legacyVars
    /\ UNCHANGED dekretVars
    /\ UNCHANGED normVars
    /\ UNCHANGED serviceVars
    /\ UNCHANGED extractVars
    /\ LET p == ParamsOf(attempt, page) IN
       \E r \in Upstream(p) :
          /\ reqlog' = Append(reqlog, LogEntry(r, p))
          /\ IF Classify(r) = "ok"
             THEN /\ got' = Append(got, r.body.results)
                  /\ Advance(Extend(results, r.body), page_count, page)
             ELSE Failed(r)

\* a new call of messagesearch_day
messagesearch_day ==
    /\ outcome # "running"
    /\ UNCHANGED syncVars
    /\ UNCHANGED legacyVars
    /\ UNCHANGED dekretVars
    /\ UNCHANGED normVars
    /\ UNCHANGED serviceVars
    /\ UNCHANGED extractVars
    /\ attempt' = 1
    /\ page' = 0
    /\ page_count' = 0
    /\ results' = <<>>
    /\ last_err' = NoErr
    /\ outcome' = "running"
    /\ out' = NoErr
    /\ reqlog' = <<>>
    /\ got' = <<>>

(***************************************************************************)
(* Part II.  run_daily_sync, process_insolvency_case and the upserts       *)
(*                                                                         *)
(* A row keeps the columns the upserts decide on.  Lawyer: id, name, firm. *)
(* Company: cvr, name, address, lawyer_id.  InsolvencyCase: id,             *)
(* message_number, company_name, cvr, lawyer_id.  A null string column is  *)
(* Null, a null id is 0.                                                   *)
(***************************************************************************)
Null == "null"

\* Python's "not x" for a string or None
Falsy(x) == x \in {Null, ""}

Max(S) == CHOOSE m \in S : \A x \in S : x <= m

\* the id an autoincrement primary key gives the next row
NextId(rows) == IF rows = {} THEN 1 ELSE 1 + Max({r.id : r \in rows})

EmptyDb == [lawyers |-> {}, companies |-> {}, cases |-> {}]

\* the unique constraints and primary keys of the three tables; a NULL
\* never collides with another NULL
UniqueViolated_undeclared(view) == FALSE

UniqueViolated(view) ==
    \/ \E a, b \in view.lawyers :
          a # b /\ (a.id = b.id \/ (a.name = b.name /\ a.firm = b.firm /\ a.firm # Null))
    \/ \E a, b \in view.companies : a # b /\ a.cvr = b.cvr
    \/ \E a, b \in view.cases :
          a # b /\ (a.id = b.id
                    \/ (a.message_number = b.message_number /\ a.message_number # Null))

\* nullable=False
NotNullViolated(view) ==
    \/ \E l \in view.lawyers : l.name = Null
    \/ \E c \in view.companies : c.name = Null

\* the ForeignKey columns
ForeignKeyViolated(view) ==
    \/ \E c \in view.cases :
          \/ c.cvr # Null /\ ~\E co \in view.companies : co.cvr = c.cvr
          \/ c.lawyer_id # 0 /\ ~\E l \in view.lawyers : l.id = c.lawyer_id
    \/ \E co \in view.companies :
          co.lawyer_id # 0 /\ ~\E l \in view.lawyers : l.id = co.lawyer_id

\* session.flush(): the database checks the pending rows; foreign keys are
\* checked only by an engine that enforces them
flush(view, fk) ==
    IF UniqueViolated(view) \/ NotNullViolated(view) \/ (fk /\ ForeignKeyViolated(view))
    THEN "IntegrityError"
    ELSE "none"

\* lookup-then-write of a lawyer; gives the view, the lawyer's id (0: None)
\* and the exception raised
upsert_lawyer(view, fk, lawyer_data) ==
    IF Falsy(lawyer_data.name)
    THEN [view |-> view, id |-> 0, err |-> "none"]
    ELSE LET existing == {l \in view.lawyers :
                             l.name = lawyer_data.name /\ l.firm = lawyer_data.firm}
         IN IF Cardinality(existing) > 1
            THEN [view |-> view, id |-> 0, err |-> "MultipleResultsFound"]
            ELSE LET row == IF existing # {}
                            THEN [(CHOOSE l \in existing : TRUE) EXCEPT
                                     !.name = lawyer_data.name, !.firm = lawyer_data.firm]
                            ELSE [id |-> NextId(view.lawyers),
                                  name |-> lawyer_data.name, firm |-> lawyer_data.firm]
                     nv == [view EXCEPT !.lawyers = (@ \ existing) \cup {row}]
                 IN [view |-> nv, id |-> row.id, err |-> flush(nv, fk)]

\* lookup by primary key, then partial update or insert; gives the view, the
\* company's cvr (Null: None) and the exception raised
upsert_company_keep_stored(view, fk, case, cvr_data) ==
    IF Falsy(cvr_data.cvr)
    THEN [view |-> view, cvr |-> Null, err |-> "none"]
    ELSE LET existing == {c \in view.companies : c.cvr = cvr_data.cvr}
             row == IF existing # {}
                    THEN LET e == CHOOSE c \in existing : TRUE IN
                         [e EXCEPT !.name = cvr_data.name,
                                   !.address = IF cvr_data.address = Null
                                               THEN @ ELSE cvr_data.address,
                                   !.lawyer_id = IF cvr_data.has_lawyer_id
                                                 THEN cvr_data.lawyer_id ELSE @]
                    ELSE [cvr |-> cvr_data.cvr, name |-> cvr_data.name,
                          address |-> cvr_data.address,
                          lawyer_id |-> IF cvr_data.has_lawyer_id
                                        THEN cvr_data.lawyer_id ELSE 0]
             nv == [view EXCEPT !.companies = (@ \ existing) \cup {row}]
         IN [view |-> nv, cvr |-> row.cvr, err |-> flush(nv, fk)]

upsert_company(view, fk, case, cvr_data) ==
    IF Falsy(cvr_data.cvr)
    THEN [view |-> view, cvr |-> Null, err |-> "none"]
    ELSE LET existing == {c \in view.companies : c.cvr = cvr_data.cvr}
             row == IF existing # {}
                    THEN LET e == CHOOSE c \in existing : TRUE IN
                         [e EXCEPT !.name = cvr_data.name,
                                   !.address = cvr_data.address,
                                   !.lawyer_id = IF cvr_data.has_lawyer_id
                                                 THEN cvr_data.lawyer_id ELSE @]
                    ELSE [cvr |-> cvr_data.cvr, name |-> cvr_data.name,
                          address |-> cvr_data.address,
                          lawyer_id |-> IF cvr_data.has_lawyer_id
                                        THEN cvr_data.lawyer_id ELSE 0]
             nv == [view EXCEPT !.companies = (@ \ existing) \cup {row}]
         IN [view |-> nv, cvr |-> row.cvr, err |-> flush(nv, fk)]

\* rows found by the lookup of upsert_insolvency_case: none is looked for
\* when the message number is missing or empty
CaseLookup(view, message_number) ==
    IF Falsy(message_number)
    THEN {}
    ELSE {c \in view.cases : c.message_number = message_number}

\* lookup by message number, then full update or insert; company_cvr is the
\* cvr of the company upserted for the case (Null: no company)
upsert_insolvency_case_keep_links(view, fk, case, company_cvr, lawyer_id) ==
    LET case_payload ==
            [message_number |-> case.messageNumber,
             company_name |-> case.company_name,
             cvr |-> IF company_cvr # Null THEN company_cvr ELSE case.cvr,
             lawyer_id |-> lawyer_id]
        existing == CaseLookup(view, case_payload.message_number)
    IN IF Cardinality(existing) > 1
       THEN [view |-> view, err |-> "MultipleResultsFound"]
       ELSE LET old == IF existing # {} THEN CHOOSE c \in existing : TRUE
                       ELSE [id |-> NextId(view.cases), cvr |-> Null, lawyer_id |-> 0]
                row == [id |-> old.id,
                        message_number |-> case_payload.message_number,
                        company_name |-> case_payload.company_name,
                        cvr |-> IF case_payload.cvr = Null
                                THEN old.cvr ELSE case_payload.cvr,
                        lawyer_id |-> IF case_payload.lawyer_id = 0
                                      THEN old.lawyer_id ELSE case_payload.lawyer_id]
                nv == [view EXCEPT !.cases = (@ \ existing) \cup {row}]
            IN [view |-> nv, err |-> flush(nv, fk)]

upsert_insolvency_case(view, fk, case, company_cvr, lawyer_id) ==
    LET case_payload ==
            [message_number |-> case.messageNumber,
             company_name |-> case.company_name,
             cvr |-> IF company_cvr # Null THEN company_cvr ELSE case.cvr,
             lawyer_id |-> lawyer_id]
        existing == CaseLookup(view, case_payload.message_number)
    IN IF Cardinality(existing) > 1
       THEN [view |-> view, err |-> "MultipleResultsFound"]
       ELSE LET id == IF existing # {} THEN (CHOOSE c \in existing : TRUE).id
                      ELSE NextId(view.cases)
                row == [id |-> id,
                        message_number |-> case_payload.message_number,
                        company_name |-> case_payload.company_name,
                        cvr |-> case_payload.cvr,
                        lawyer_id |-> case_payload.lawyer_id]
                nv == [view EXCEPT !.cases = (@ \ existing) \cup {row}]
            IN [view |-> nv, err |-> flush(nv, fk)]

\* no call was made
NoCall == [kind |-> "nocall", cvr |-> Null, name |-> Null, firm |-> Null, address |-> Null]

\* the answer to the registry call of a case, NoCall when the case has no
\* company name
CvrCall(case, ca) == IF Falsy(case.company_name) THEN NoCall ELSE ca

\* the answer to the lawyer-directory call of a case, NoCall when the case
\* has no lawyer name or the registry step raised before it
LawyerCall(case, ca, la) ==
    IF Falsy(case.lawyer_name) \/ CvrCall(case, ca).kind = "malformed"
    THEN NoCall
    ELSE la

\* the exceptions the two try blocks of process_insolvency_case catch
EnrichmentCaught_nothing(kind) == FALSE

EnrichmentCaught(kind) == kind = "error"

\* _build_company_fields: cvr, and stamdata.navn or company_name; the dict
\* has no lawyer_id key
_build_company_fields(company_name, cvr_payload) ==
    [cvr |-> cvr_payload.cvr,
     name |-> IF Falsy(cvr_payload.name) THEN company_name ELSE cvr_payload.name,
     address |-> cvr_payload.address,
     has_lawyer_id |-> FALSE, lawyer_id |-> 0]

\* _build_lawyer_fields
_build_lawyer_fields_no_firm(profile) == [name |-> profile.name, firm |-> Null]

_build_lawyer_fields(profile) == [name |-> profile.name, firm |-> profile.firm]

\* process_insolvency_case on the session's view, with the answers ca of
\* the registry and la of the lawyer directory; gives the view and the
\* exception that leaves the function ("none": it returns)
process_insolvency_case(view, fk, case, ca, la) ==
    LET cvr_called == ~Falsy(case.company_name)
        lawyer_called == ~Falsy(case.lawyer_name)
        cvr_raises ==
            IF ~cvr_called THEN "none"
            ELSE IF ca.kind = "error" /\ ~EnrichmentCaught(ca.kind) THEN "RequestException"
            ELSE IF ca.kind = "malformed" THEN "AttributeError"
            ELSE "none"
        has_company_fields == cvr_called /\ ca.kind = "ok"
        lawyer_raises ==
            IF ~lawyer_called THEN "none"
            ELSE IF la.kind = "error" /\ ~EnrichmentCaught(la.kind) THEN "RequestException"
            ELSE IF la.kind = "malformed" THEN "AttributeError"
            ELSE "none"
        ul == IF lawyer_called /\ la.kind = "ok"
              THEN upsert_lawyer(view, fk, _build_lawyer_fields(la))
              ELSE [view |-> view, id |-> 0, err |-> "none"]
        cf == [_build_company_fields(case.company_name, ca) EXCEPT
                  !.has_lawyer_id = ul.id # 0, !.lawyer_id = ul.id]
        uc == IF has_company_fields
              THEN upsert_company(ul.view, fk, case, cf)
              ELSE [view |-> ul.view, cvr |-> Null, err |-> "none"]
        ui == upsert_insolvency_case(uc.view, fk, case, uc.cvr, ul.id)
    IN IF cvr_raises # "none" THEN [view |-> view, raised |-> cvr_raises]
       ELSE IF lawyer_raises # "none" THEN [view |-> view, raised |-> lawyer_raises]
       ELSE IF ul.err # "none" THEN [view |-> ul.view, raised |-> ul.err]
       ELSE IF uc.err # "none" THEN [view |-> uc.view, raised |-> uc.err]
       ELSE [view |-> ui.view, raised |-> ui.err]

\* Whether a safe_sleep ran between the last upstream call of the case and
\* the end of process_insolvency_case: the final one when the function
\* returns, else the one that follows the step of the last call made.
SleptAfterLastCall(case, ca, la, raised) ==
    LET c == CvrCall(case, ca)
        l == LawyerCall(case, ca, la)
    IN IF raised = "none" THEN TRUE
       ELSE IF l.kind # "nocall"
            THEN \/ l.kind = "error"
                 \/ l.kind = "ok" /\ raised \notin {"AttributeError"}
                    /\ upsert_lawyer(sess, env.fk, _build_lawyer_fields(l)).err = "none"
            ELSE c.kind \in {"ok", "error"}

\* session.commit() / session.rollback()
commit(view) == view

rollback_missing(view, committed) == view

rollback(view, committed) == committed

\* the exceptions the except clauses of the loop of run_daily_sync catch
LoopCatches_integrity_only(exc) == exc = "IntegrityError"

LoopCatches(exc) == TRUE

\* the exceptions the except clause around the listing fetch catches
FetchCatches(exc) == exc = "RequestException"

NoLast == [idx |-> 0, req_failed |-> FALSE, raised |-> "none",
           ca |-> NoCall, la |-> NoCall, slept |-> FALSE]

\* the lists of cases a day's listing can hold
RECURSIVE ListsOf(_, _)
ListsOf(S, n) ==
    IF n = 0 THEN {<<>>}
    ELSE LET shorter == ListsOf(S, n - 1) IN
         shorter \cup {Append(l, c) : l \in shorter, c \in S}

\* the run has read its listing and enters the loop over the cases
EnterLoop(l) ==
    /\ insolvencies' = l
    /\ index' = 0
    /\ attempted' = <<>>
    /\ last' = NoLast
    /\ rolled' = {}
    /\ run_pc' = IF l = <<>> THEN "done" ELSE "loop"
    /\ run_outcome' = IF l = <<>> THEN "returned" ELSE "none"
    /\ run_result' = Null

\* the loop goes on to the next case, or the run ends
NextCase ==
    /\ index' = index + 1
    /\ run_pc' = IF index + 1 = Len(insolvencies) THEN "done" ELSE "loop"
    /\ run_outcome' = IF index + 1 = Len(insolvencies) THEN "returned" ELSE "none"
    /\ run_result' = Null

\* process_insolvency_case is called for the next case of the list and
\* returns or raises; its writes are flushed to the session
ProcessWith(ca, la) ==
    LET case == insolvencies[index + 1]
        r == process_insolvency_case(sess, env.fk, case, ca, la)
    IN /\ sess' = r.view
       /\ attempted' = Append(attempted, case)
       /\ last' = [idx |-> index + 1,
                   req_failed |-> \/ (~Falsy(case.company_name) /\ ca.kind = "error")
                                  \/ (~Falsy(case.lawyer_name) /\ la.kind = "error"),
                   raised |-> r.raised,
                   ca |-> CvrCall(case, ca),
                   la |-> LawyerCall(case, ca, la),
                   slept |-> SleptAfterLastCall(case, ca, la, r.raised)]
       /\ run_pc' = "commit"
       /\ UNCHANGED <<db, index, run_outcome, run_result, rolled>>

\* the rest of the round: session.commit(), or an except clause with its
\* session.rollback(); an exception no clause catches leaves the run
CommitWith(commit_ok) ==
    LET exc == IF last.raised # "none" THEN last.raised
               ELSE IF ~commit_ok THEN "OperationalError"
               ELSE "none"
    IN /\ last' = [last EXCEPT !.raised = exc]
       /\ IF exc = "none"
          THEN /\ db' = commit(sess)
               /\ sess' = sess
               /\ rolled' = rolled
               /\ NextCase
          ELSE IF LoopCatches(exc)
          THEN /\ db' = db
               /\ sess' = rollback(sess, db)
               /\ rolled' = rolled \cup {index + 1}
               /\ NextCase
          ELSE /\ db' = db
               /\ sess' = db
               /\ rolled' = rolled
               /\ index' = index
               /\ run_pc' = "done"
               /\ run_outcome' = "raised"
               /\ run_result' = Null

\* run_daily_sync up to its loop: the listing is fetched
run_daily_sync_fetch ==
    /\ run_pc \in {"idle", "done"}
    /\ ~again
    /\ env.record => run_pc = "idle"
    /\ \E f \in {"ok", "RequestException", "AttributeError"} :
          /\ fetch_res' = f
          /\ IF f = "ok"
             THEN \E l \in ListsOf(env.cases, MaxCases) :
                     /\ Cardinality({c \in db.cases : c.message_number = Null})
                          + Cardinality({i \in 1..Len(l) : l[i].messageNumber = Null})
                        <= MaxNullRows
                     /\ EnterLoop(l)
             ELSE /\ insolvencies' = <<>>
                  /\ index' = 0
                  /\ attempted' = <<>>
                  /\ last' = NoLast
                  /\ rolled' = {}
                  /\ run_pc' = "done"
                  /\ run_outcome' = IF FetchCatches(f) THEN "returned" ELSE "raised"
                  /\ run_result' = Null
    /\ UNCHANGED <<env, db, sess, again, answers, first_count>>
    /\ UNCHANGED searchVars
    /\ UNCHANGED dekretVars
    /\ UNCHANGED normVars
    /\ UNCHANGED serviceVars
    /\ UNCHANGED extractVars
    /\ UNCHANGED legacyVars

\* process_insolvency_case for the next case
run_daily_sync_process ==
    /\ run_pc = "loop"
    /\ ~again
    /\ \E ca \in env.cvr, la \in env.lawyer :
          /\ ProcessWith(ca, la)
          /\ answers' = IF env.record
                        THEN Append(answers, [ca |-> ca, la |-> la, commit_ok |-> TRUE])
                        ELSE answers
    /\ UNCHANGED <<env, insolvencies, again, first_count, fetch_res>>
    /\ UNCHANGED searchVars
    /\ UNCHANGED dekretVars
    /\ UNCHANGED normVars
    /\ UNCHANGED serviceVars
    /\ UNCHANGED extractVars
    /\ UNCHANGED legacyVars

\* the commit or the rollback that ends the round of the loop
run_daily_sync_commit ==
    /\ run_pc = "commit"
    /\ ~again
    /\ \E commit_ok \in env.commit :
          /\ CommitWith(commit_ok)
          /\ answers' = IF env.record
                        THEN [answers EXCEPT ![Len(answers)].commit_ok = commit_ok]
                        ELSE answers
    /\ UNCHANGED <<env, insolvencies, attempted, again, first_count, fetch_res>>
    /\ UNCHANGED searchVars
    /\ UNCHANGED dekretVars
    /\ UNCHANGED normVars
    /\ UNCHANGED serviceVars
    /\ UNCHANGED extractVars
    /\ UNCHANGED legacyVars

\* the same day is ingested again: the listing is answered as before
run_daily_sync_again ==
    /\ env.record
    /\ ~again
    /\ run_pc = "done"
    /\ fetch_res = "ok"
    /\ again' = TRUE
    /\ first_count' = Cardinality(db.cases)
    /\ EnterLoop(insolvencies)
    /\ UNCHANGED <<env, db, sess, answers, fetch_res>>
    /\ UNCHANGED searchVars
    /\ UNCHANGED dekretVars
    /\ UNCHANGED normVars
    /\ UNCHANGED serviceVars
    /\ UNCHANGED extractVars
    /\ UNCHANGED legacyVars

\* process_insolvency_case in the second ingestion: the enrichment calls
\* are answered as in the first
run_daily_sync_process_again ==
    /\ again
    /\ run_pc = "loop"
    /\ LET a == answers[index + 1] IN ProcessWith(a.ca, a.la)
    /\ UNCHANGED <<env, insolvencies, again, first_count, fetch_res, answers>>
    /\ UNCHANGED searchVars
    /\ UNCHANGED dekretVars
    /\ UNCHANGED normVars
    /\ UNCHANGED serviceVars
    /\ UNCHANGED extractVars
    /\ UNCHANGED legacyVars

\* the commit or the rollback of the second ingestion, as in the first
run_daily_sync_commit_again ==
    /\ again
    /\ run_pc = "commit"
    /\ CommitWith(answers[index + 1].commit_ok)
    /\ UNCHANGED <<env, insolvencies, attempted, again, first_count, fetch_res, answers>>
    /\ UNCHANGED searchVars
    /\ UNCHANGED dekretVars
    /\ UNCHANGED normVars
    /\ UNCHANGED serviceVars
    /\ UNCHANGED extractVars
    /\ UNCHANGED legacyVars

(***************************************************************************)
(* Part III.  fetch_daily_insolvencies (microservices/aggregator/app.py)   *)
(*                                                                         *)
(* The second ingestion routine of the aggregator.  Its tables Insolvency, *)
(* InsolvencyLawyer and CompanyAssets are modelled by what the routine     *)
(* reads and writes of them.  Insolvency: id, cvr, lawyer_name,            *)
(* lawyer_firm, with one parseable date for all records.  Lawyer: id,      *)
(* name, firm, complete (email, phone and address are all set).            *)
(* InsolvencyLawyer: id, ins, lawyer.  CompanyAssets: id, cvr.  A row of   *)
(* these two is pending from db.add until the next flush: the session does *)
(* not autoflush, so a query does not see it.                              *)
(***************************************************************************)
LegacyEmptyDb == [insolvencies |-> {}, lawyers |-> {}, links |-> {}, assets |-> {}]

NoCur == [ins |-> 0, lawyer |-> 0]

\* func.lower / str.lower on the names of the model
Lower(n) == IF n = "L1" THEN "l1" ELSE n

\* item.get(k) or stored
OrElse(new, stored) == IF Falsy(new) THEN stored ELSE new

\* db.flush(): the pending rows are written and queries see them
Flush(view) ==
    [view EXCEPT !.links = {[l EXCEPT !.pending = FALSE] : l \in @},
                 !.assets = {[a EXCEPT !.pending = FALSE] : a \in @}]

\* _get_or_create_lawyer: lookup by lower-cased name, first(); insert and
\* flush when there is none; gives the view and the lawyer's id (0: None)
_get_or_create_lawyer(view, name, firm) ==
    IF Falsy(name)
    THEN [view |-> view, id |-> 0]
    ELSE LET found == {l \in view.lawyers : Lower(l.name) = Lower(name)}
         IN IF found # {}
            THEN [view |-> view,
                  id |-> (CHOOSE l \in found : \A m \in found : l.id <= m.id).id]
            ELSE LET row == [id |-> NextId(view.lawyers), name |-> name,
                             firm |-> firm, complete |-> FALSE]
                 IN [view |-> Flush([view EXCEPT !.lawyers = @ \cup {row}]),
                     id |-> row.id]

\* the lookup-then-write of the Insolvency of a record; gives the view and
\* the row
UpsertInsolvency(view, item) ==
    LET found == {r \in view.insolvencies : r.cvr = item.cvr}
    IN IF found = {}
       THEN LET row == [id |-> NextId(view.insolvencies), cvr |-> item.cvr,
                        lawyer_name |-> item.lawyer_name,
                        lawyer_firm |-> item.lawyer_firm]
            IN [view |-> Flush([view EXCEPT !.insolvencies = @ \cup {row}]),
                row |-> row]
       ELSE LET old == CHOOSE r \in found : TRUE
                row == [old EXCEPT
                           !.lawyer_name = OrElse(item.lawyer_name, @),
                           !.lawyer_firm = OrElse(item.lawyer_firm, @)]
            IN [view |-> [view EXCEPT !.insolvencies = (@ \ found) \cup {row}],
                row |-> row]

\* _enrich_lawyer makes its call unless the lawyer has email, phone and
\* address
EnrichCalls(view, id) == \E l \in view.lawyers : l.id = id /\ ~l.complete

\* _enrich_lawyer with the details the directory gave
EnrichWith(view, id, details) ==
    [view EXCEPT !.lawyers =
        {IF l.id = id
         THEN [l EXCEPT !.firm = OrElse(details.firm, @),
                        !.complete = @ \/ details.complete]
         ELSE l : l \in @}]

\* _link_lawyer: the query for the link, first(); db.add when there is none
_link_lawyer(view, ins, lawyer) ==
    IF lawyer = 0 THEN view
    ELSE LET exists == {l \in view.links :
                           ~l.pending /\ l.ins = ins /\ l.lawyer = lawyer}
         IN IF exists # {} THEN view
            ELSE [view EXCEPT !.links = @ \cup
                     {[id |-> NextId(view.links), ins |-> ins, lawyer |-> lawyer,
                       pending |-> TRUE]}]

\* the rows the query of _upsert_assets sees
AssetsFound(view, cvr) == {a \in view.assets : ~a.pending /\ a.cvr = cvr}

\* one_or_none() raises MultipleResultsFound
AssetsAmbiguous(view, cvr) == Cardinality(AssetsFound(view, cvr)) > 1

\* the write of _upsert_assets: db.add when the query found no row, setattr
\* on the row found otherwise
UpsertAssets(view, cvr) ==
    IF AssetsFound(view, cvr) # {} THEN view
    ELSE [view EXCEPT !.assets = @ \cup
             {[id |-> NextId(view.assets), cvr |-> cvr, pending |-> TRUE]}]

\* an upstream call is issued for record idx; in_tx tells whether the
\* session holds writes that are not committed
LegacyCall(svc) ==
    Append(lg_calls, [idx |-> lg_i + 1, svc |-> svc, in_tx |-> lg_sess # lg_db])

\* return {"fetched": ..., "created": ..., "updated": ...}
Counts(f, c, u) == [fetched |-> f, created |-> c, updated |-> u]

\* nothing was returned: the run is under way, or an exception left it
NoCounts == [fetched |-> -1, created |-> -1, updated |-> -1]

\* the lookup of a record finds no Insolvency
IsNew(view, item) == \A r \in view.insolvencies : r.cvr # item.cvr

LegacyRaise_keep ==
    /\ lg_result' = NoCounts
    /\ lg_sess' = lg_sess
    /\ lg_db' = lg_sess
    /\ lg_pc' = "done"
    /\ lg_outcome' = "raised"
    /\ lg_i' = lg_i
    /\ lg_cur' = NoCur

\* an exception leaves the with block: session_scope rolls back and
\* re-raises
LegacyRaise ==
    /\ lg_result' = NoCounts
    /\ lg_sess' = lg_db
    /\ lg_db' = lg_db
    /\ lg_pc' = "done"
    /\ lg_outcome' = "raised"
    /\ lg_i' = lg_i
    /\ lg_cur' = NoCur

\* the loop goes on to the next record; after the last one session_scope
\* commits, or rolls back and re-raises when the commit fails
LegacyNext(view, commit_ok) ==
    IF lg_i + 1 < Len(lg_records)
    THEN /\ lg_i' = lg_i + 1
         /\ lg_result' = NoCounts
         /\ lg_sess' = view
         /\ lg_db' = lg_db
         /\ lg_pc' = "item"
         /\ lg_outcome' = "none"
         /\ lg_cur' = NoCur
    ELSE /\ lg_i' = lg_i + 1
         /\ lg_pc' = "done"
         /\ lg_cur' = NoCur
         /\ IF commit_ok
            THEN /\ lg_db' = Flush(view) /\ lg_sess' = Flush(view)
                 /\ lg_outcome' = "returned"
                 /\ lg_result' = Counts(Len(lg_records), lg_created, lg_updated)
            ELSE /\ lg_db' = lg_db /\ lg_sess' = lg_db /\ lg_outcome' = "raised"
                 /\ lg_result' = NoCounts

\* fetch_daily_insolvencies up to its loop
fetch_daily_insolvencies ==
    /\ lg_pc \in {"idle", "done"}
    /\ lg_runs < MaxRuns
    /\ lg_runs' = lg_runs + 1
    /\ lg_created' = 0
    /\ lg_updated' = 0
    /\ \E ok \in BOOLEAN :
          IF ok
          THEN \E l \in ListsOf(env.records, MaxCases) :
                  /\ lg_same' = (lg_outcome = "returned" /\ lg_result # NoCounts
                                   /\ lg_result.fetched > 0 /\ l = lg_records)
                  /\ lg_result' = IF l = <<>> THEN Counts(0, 0, 0) ELSE NoCounts
                  /\ lg_records' = l
                  /\ lg_calls' = <<>>
                  /\ lg_cur' = NoCur
                  /\ lg_i' = 0
                  /\ lg_pc' = IF l = <<>> THEN "done" ELSE "item"
                  /\ lg_outcome' = IF l = <<>> THEN "returned" ELSE "none"
                  /\ UNCHANGED <<lg_db, lg_sess>>
          ELSE /\ lg_same' = FALSE
               /\ lg_result' = Counts(0, 0, 0)
               /\ lg_records' = <<>>
               /\ lg_calls' = <<>>
               /\ lg_cur' = NoCur
               /\ lg_i' = 0
               /\ lg_pc' = "done"
               /\ lg_outcome' = "returned"
               /\ UNCHANGED <<lg_db, lg_sess>>
    /\ UNCHANGED searchVars
    /\ UNCHANGED dekretVars
    /\ UNCHANGED normVars
    /\ UNCHANGED serviceVars
    /\ UNCHANGED extractVars
    /\ UNCHANGED syncVars

\* one record of the loop up to the first upstream call: the skip of a
\* record without cvr, the Insolvency row, _get_or_create_lawyer; a query
\* or a flush of the record may raise where the store can fail
fetch_daily_insolvencies_item ==
    /\ lg_pc = "item"
    /\ UNCHANGED <<lg_same, lg_runs>>
    /\ LET item == lg_records[lg_i + 1] IN
       IF Falsy(item.cvr)
       THEN /\ \E commit_ok \in env.commit : LegacyNext(lg_sess, commit_ok)
            /\ UNCHANGED <<lg_records, lg_calls, lg_created, lg_updated>>
       ELSE \E store_ok \in env.commit :
            IF ~store_ok
            THEN /\ LegacyRaise
                 /\ UNCHANGED <<lg_records, lg_calls, lg_created, lg_updated>>
            ELSE
            LET ui == UpsertInsolvency(lg_sess, item)
                gl == _get_or_create_lawyer(ui.view, ui.row.lawyer_name,
                                            ui.row.lawyer_firm)
            IN /\ lg_sess' = gl.view
               /\ lg_cur' = [ins |-> ui.row.id, lawyer |-> gl.id]
               /\ lg_pc' = IF gl.id # 0 THEN "enrich" ELSE "assets"
               /\ lg_created' = IF IsNew(lg_sess, item) THEN lg_created + 1
                                 ELSE lg_created
               /\ lg_updated' = IF IsNew(lg_sess, item) THEN lg_updated
                                 ELSE lg_updated + 1
               /\ UNCHANGED <<lg_records, lg_i, lg_db, lg_outcome, lg_calls, lg_result>>
    /\ UNCHANGED searchVars
    /\ UNCHANGED dekretVars
    /\ UNCHANGED normVars
    /\ UNCHANGED serviceVars
    /\ UNCHANGED extractVars
    /\ UNCHANGED syncVars

\* _enrich_lawyer and _link_lawyer for the lawyer of the record
fetch_daily_insolvencies_enrich ==
    /\ lg_pc = "enrich"
    /\ UNCHANGED <<lg_created, lg_updated, lg_same, lg_runs>>
    /\ IF ~EnrichCalls(lg_sess, lg_cur.lawyer)
       THEN /\ lg_sess' = _link_lawyer(lg_sess, lg_cur.ins, lg_cur.lawyer)
            /\ lg_pc' = "assets"
            /\ UNCHANGED <<lg_records, lg_i, lg_db, lg_cur, lg_outcome, lg_calls,
                           lg_result>>
       ELSE \E a \in env.details :
               /\ lg_calls' = LegacyCall("advokat")
               /\ lg_records' = lg_records
               /\ IF a.kind = "malformed"
                  THEN LegacyRaise
                  ELSE /\ lg_sess' = _link_lawyer(
                                        IF a.kind = "ok"
                                        THEN EnrichWith(lg_sess, lg_cur.lawyer, a)
                                        ELSE lg_sess,
                                        lg_cur.ins, lg_cur.lawyer)
                       /\ lg_pc' = "assets"
                       /\ UNCHANGED <<lg_i, lg_db, lg_cur, lg_outcome, lg_result>>
    /\ UNCHANGED searchVars
    /\ UNCHANGED dekretVars
    /\ UNCHANGED normVars
    /\ UNCHANGED serviceVars
    /\ UNCHANGED extractVars
    /\ UNCHANGED syncVars

\* _upsert_assets for the record, and the end of its round of the loop
fetch_daily_insolvencies_assets ==
    /\ lg_pc = "assets"
    /\ UNCHANGED <<lg_created, lg_updated, lg_same, lg_runs>>
    /\ \E k \in env.assets, commit_ok \in env.commit :
          /\ lg_calls' = LegacyCall("cvr")
          /\ lg_records' = lg_records
          /\ IF k = "malformed"
                \/ (k = "ok" /\ AssetsAmbiguous(lg_sess, lg_records[lg_i + 1].cvr))
             THEN LegacyRaise
             ELSE LegacyNext(IF k = "ok"
                             THEN UpsertAssets(lg_sess, lg_records[lg_i + 1].cvr)
                             ELSE lg_sess,
                             commit_ok)
    /\ UNCHANGED searchVars
    /\ UNCHANGED dekretVars
    /\ UNCHANGED normVars
    /\ UNCHANGED serviceVars
    /\ UNCHANGED extractVars
    /\ UNCHANGED syncVars

(***************************************************************************)
(* Part IV.  api_messages_dekret (microservices/statstidende/main.py)      *)
(***************************************************************************)
\* the notices of a day's search: decrees of the bankruptcy section, other
\* notices of that section, decrees of another section; with one of two
\* message numbers, an empty one or none
Notices ==
    {[sectionName |-> st[1], messageTypeName |-> st[2], messageNumber |-> m] :
        st \in {<<"Konkursboer", "Dekret">>, <<"Konkursboer", "Indkaldelse">>,
                <<"Tvangsauktioner", "Dekret">>},
        m \in {Null, "", "N1", "N2"}}

NoOut == [resultCount |-> 0, results |-> <<>>]

\* the filter of the list comprehension
IsDekret_section_only(r) == r.sectionName = "Konkursboer"

IsDekret(r) == r.sectionName = "Konkursboer" /\ r.messageTypeName = "Dekret"

\* hits = [r for r in search.get("results", []) if ...]
Hits(rs) == SelectSeq(rs, IsDekret)

\* the full message the upstream holds under the number of a listed
\* notice: the notice itself (a failing fetch is the caller's full_ok)
get_message_full(it) == it

\* the snapshot built from the full message of a hit
Snapshot(msg) ==
    [messageNumber |-> msg.messageNumber,
     sectionName |-> msg.sectionName,
     messageTypeName |-> msg.messageTypeName]

\* return {"resultCount": len(enriched), "results": enriched}
DekretReturn(enriched) ==
    /\ dk_out' = [resultCount |-> Len(enriched), results |-> enriched]
    /\ dk_outcome' = "returned"
    /\ dk_pc' = "done"

\* the search of the day, the filter, and the return when nothing is left
api_messages_dekret ==
    /\ dk_pc = "idle"
    /\ dk_fetched' = <<>>
    /\ dk_enriched' = <<>>
    /\ dk_pos' = 0
    /\ \E ok \in BOOLEAN :
          IF ok
          THEN \E rs \in ListsOf(Notices, MaxNotices) :
                  /\ dk_search' = rs
                  /\ dk_hits' = Hits(rs)
                  /\ IF Hits(rs) = <<>>
                     THEN DekretReturn(<<>>)
                     ELSE /\ dk_pc' = "loop"
                          /\ dk_outcome' = "none"
                          /\ dk_out' = NoOut
          ELSE /\ dk_search' = <<>>
               /\ dk_hits' = <<>>
               /\ dk_pc' = "done"
               /\ dk_outcome' = "raised"
               /\ dk_out' = NoOut
    /\ UNCHANGED searchVars
    /\ UNCHANGED syncVars
    /\ UNCHANGED legacyVars
    /\ UNCHANGED normVars
    /\ UNCHANGED serviceVars
    /\ UNCHANGED extractVars

\* one round of the loop over hits, and the return after the last one
api_messages_dekret_hit ==
    /\ dk_pc = "loop"
    /\ LET it == dk_hits[dk_pos + 1]
           msg_no == it.messageNumber
           last_one == dk_pos + 1 = Len(dk_hits)
       IN IF Falsy(msg_no)
          THEN /\ dk_pos' = dk_pos + 1
               /\ UNCHANGED <<dk_enriched, dk_fetched>>
               /\ IF last_one THEN DekretReturn(dk_enriched)
                  ELSE UNCHANGED <<dk_pc, dk_out, dk_outcome>>
          ELSE \E full_ok \in BOOLEAN :
                  /\ dk_fetched' = Append(dk_fetched, msg_no)
                  /\ IF full_ok
                     THEN LET enriched == Append(dk_enriched, Snapshot(get_message_full(it))) IN
                          /\ dk_enriched' = enriched
                          /\ dk_pos' = dk_pos + 1
                          /\ IF last_one THEN DekretReturn(enriched)
                             ELSE UNCHANGED <<dk_pc, dk_out, dk_outcome>>
                     ELSE /\ dk_pc' = "done"
                          /\ dk_outcome' = "raised"
                          /\ dk_out' = NoOut
                          /\ UNCHANGED <<dk_enriched, dk_pos>>
    /\ UNCHANGED <<dk_search, dk_hits>>
    /\ UNCHANGED searchVars
    /\ UNCHANGED syncVars
    /\ UNCHANGED legacyVars
    /\ UNCHANGED normVars
    /\ UNCHANGED serviceVars
    /\ UNCHANGED extractVars

(***************************************************************************)
(* Part V.  normalize_document_inplace (microservices/statstidende/main.py *)
(* and statstidende/statstidende.py, the same text in both)                *)
(*                                                                         *)
(* Python values are records tagged by their type.  A str that holds JSON  *)
(* text is a sequence of tokens; the other strs (keys, parsed strings) are *)
(* sequences of syllables, so that "fieldgroups" is a part of              *)
(* "defaultfieldgroups" as it is in Python.                                *)
(***************************************************************************)
Absent == [t |-> "absent"]
PyNone == [t |-> "none"]
JNum(n) == [t |-> "num", v |-> n]
JStr(w) == [t |-> "str", s |-> w]
JList(xs) == [t |-> "list", items |-> xs]
JDict(ps) == [t |-> "dict", members |-> ps]
Text(ts) == [t |-> "text", toks |-> ts]

Tok(k) == [k |-> k]
StrTok(w) == [k |-> "str", s |-> w]
NumTok(n) == [k |-> "num", v |-> n]

fieldgroups == <<"fieldgroups">>
defaultfieldgroups == <<"default", "fieldgroups">>

\* a value written as JSON text, with sep after every "," and ":"
RECURSIVE Spelled(_, _), SpelledItems(_, _), SpelledMembers(_, _)
Spelled(v, sep) ==
    CASE v.t = "none" -> <<Tok("null")>>
      [] v.t = "num" -> <<NumTok(v.v)>>
      [] v.t = "str" -> <<StrTok(v.s)>>
      [] v.t = "list" -> <<Tok("[")>> \o SpelledItems(v.items, sep) \o <<Tok("]")>>
      [] v.t = "dict" -> <<Tok("{")>> \o SpelledMembers(v.members, sep) \o <<Tok("}")>>

SpelledItems(xs, sep) ==
    IF xs = <<>> THEN <<>>
    ELSE Spelled(Head(xs), sep)
         \o (IF Len(xs) = 1 THEN <<>>
             ELSE <<Tok(",")>> \o sep \o SpelledItems(Tail(xs), sep))

SpelledMembers(ps, sep) ==
    IF ps = <<>> THEN <<>>
    ELSE <<StrTok(Head(ps)[1]), Tok(":")>> \o sep \o Spelled(Head(ps)[2], sep)
         \o (IF Len(ps) = 1 THEN <<>>
             ELSE <<Tok(",")>> \o sep \o SpelledMembers(Tail(ps), sep))

\* json.dumps(parsed, ensure_ascii=False): separators ", " and ": "
json_dumps(v) == Spelled(v, <<Tok("ws")>>)

ParseFail == [ok |-> FALSE, val |-> PyNone, rest |-> <<>>]
Parsed(v, r) == [ok |-> TRUE, val |-> v, rest |-> r]

RECURSIVE SkipWs(_)
SkipWs(ts) ==
    IF ts # <<>> /\ Head(ts).k = "ws" THEN SkipWs(Tail(ts)) ELSE ts

\* d[k] = v on a dict: a key already there keeps its place
RECURSIVE Put(_, _, _)
Put(ps, k, v) ==
    IF ps = <<>> THEN <<<<k, v>>>>
    ELSE IF Head(ps)[1] = k THEN <<<<k, v>>>> \o Tail(ps)
    ELSE <<Head(ps)>> \o Put(Tail(ps), k, v)

RECURSIVE ParseValue(_), ParseItems(_, _), ParseMembers(_, _)
ParseValue(ts) ==
    LET u == SkipWs(ts) IN
    IF u = <<>> THEN ParseFail
    ELSE LET h == Head(u)
             r == SkipWs(Tail(u))
         IN CASE h.k = "null" -> Parsed(PyNone, Tail(u))
              [] h.k = "num" -> Parsed(JNum(h.v), Tail(u))
              [] h.k = "str" -> Parsed(JStr(h.s), Tail(u))
              [] h.k = "[" ->
                    IF r # <<>> /\ Head(r).k = "]"
                    THEN Parsed(JList(<<>>), Tail(r))
                    ELSE ParseItems(r, <<>>)
              [] h.k = "{" ->
                    IF r # <<>> /\ Head(r).k = "}"
                    THEN Parsed(JDict(<<>>), Tail(r))
                    ELSE ParseMembers(r, <<>>)
              [] OTHER -> ParseFail

ParseItems(ts, acc) ==
    LET x == ParseValue(ts)
        u == SkipWs(x.rest)
    IN IF ~x.ok \/ u = <<>> THEN ParseFail
       ELSE CASE Head(u).k = "," -> ParseItems(Tail(u), Append(acc, x.val))
              [] Head(u).k = "]" -> Parsed(JList(Append(acc, x.val)), Tail(u))
              [] OTHER -> ParseFail

ParseMembers(ts, acc) ==
    LET u == SkipWs(ts) IN
    IF u = <<>> \/ Head(u).k # "str" THEN ParseFail
    ELSE LET c == SkipWs(Tail(u)) IN
         IF c = <<>> \/ Head(c).k # ":" THEN ParseFail
         ELSE LET x == ParseValue(Tail(c))
                  e == SkipWs(x.rest)
                  ps == Put(acc, Head(u).s, x.val)
              IN IF ~x.ok \/ e = <<>> THEN ParseFail
                 ELSE CASE Head(e).k = "," -> ParseMembers(Tail(e), ps)
                        [] Head(e).k = "}" -> Parsed(JDict(ps), Tail(e))
                        [] OTHER -> ParseFail

\* json.loads(doc): one value, with nothing but whitespace after it
json_loads(ts) ==
    LET x == ParseValue(ts) IN
    IF x.ok /\ SkipWs(x.rest) = <<>> THEN x ELSE ParseFail

\* w is a part of s
IsInfix(w, s) ==
    \E i \in 0..(Len(s) - Len(w)) : \A j \in 1..Len(w) : s[i + j] = w[j]

HasKey(ps, k) == \E i \in 1..Len(ps) : ps[i][1] = k

\* k in parsed: a key of a dict, an element of a list, a part of a str;
\* TypeError on what is no container
Contains(k, parsed) ==
    CASE parsed.t = "dict" -> IF HasKey(parsed.members, k) THEN "yes" ELSE "no"
      [] parsed.t = "list" ->
            IF \E i \in 1..Len(parsed.items) : parsed.items[i] = JStr(k)
            THEN "yes" ELSE "no"
      [] parsed.t = "str" -> IF IsInfix(k, parsed.s) THEN "yes" ELSE "no"
      [] OTHER -> "TypeError"

\* parsed.get(k, [])
DictGet(ps, k) ==
    IF HasKey(ps, k)
    THEN ps[CHOOSE i \in 1..Len(ps) : ps[i][1] = k][2]
    ELSE JList(<<>>)

NormResult(o, m) == [outcome |-> o, message |-> m]

\* the four assignments of lines 55-58, the last two on an object only
Attach(message, parsed) ==
    LET m == [message EXCEPT !._document_obj = parsed,
                             !.document = Text(json_dumps(parsed))]
    IN IF parsed.t # "dict" THEN NormResult("AttributeError", m)
       ELSE NormResult("returned",
                [m EXCEPT !.fieldGroups = DictGet(parsed.members, fieldgroups),
                          !.defaultFieldGroups =
                              DictGet(parsed.members, defaultfieldgroups)])

\* the test of line 52 and what follows it
CheckKeys(message, parsed) ==
    LET a == Contains(fieldgroups, parsed)
        b == Contains(defaultfieldgroups, parsed)
    IN IF a = "TypeError" THEN NormResult("TypeError", message)
       ELSE IF a = "no" \/ b = "no" THEN NormResult("ValueError", message)
       ELSE Attach(message, parsed)

normalize_document_inplace(message) ==
    LET doc == IF message.document = Absent THEN PyNone ELSE message.document
    IN IF doc.t = "text"
       THEN LET x == json_loads(doc.toks) IN
            IF x.ok THEN CheckKeys(message, x.val)
            ELSE NormResult("ValueError", message)
       ELSE IF doc.t = "dict" THEN CheckKeys(message, doc)
       ELSE NormResult("ValueError", message)

\* one call of normalize_document_inplace on the message
normalize_document_inplace_call ==
    /\ nd_outcome = "none"
    /\ LET r == normalize_document_inplace(nd_message) IN
       /\ nd_outcome' = r.outcome
       /\ nd_message' = r.message
    /\ UNCHANGED nd_input
    /\ UNCHANGED searchVars
    /\ UNCHANGED syncVars
    /\ UNCHANGED legacyVars
    /\ UNCHANGED dekretVars
    /\ UNCHANGED serviceVars
    /\ UNCHANGED extractVars

(***************************************************************************)
(* Part VI.  The asset extractors: parse_xbrl_assets of                    *)
(* microservices/cvr/parse_xbrl.py, which the registry service calls, and  *)
(* Fetch.parse_xbrl_assets of microservices/cvr/fetch.py.                  *)
(*                                                                         *)
(* A document is the sequence of its elements in the order of root.iter(). *)
(* A tag is a namespace part and a local name; a local name is a sequence  *)
(* of words, cut so that one name ends with another as a string exactly    *)
(* when its words end with the other's words.  A text is a sequence of     *)
(* characters, a number is held in tenths.                                 *)
(***************************************************************************)
NoText == [t |-> "none"]
Chars(cs) == [t |-> "chars", cs |-> cs]

Digits == {"0", "1", "2", "5"}

DigitValue(c) ==
    CASE c = "0" -> 0 [] c = "1" -> 1 [] c = "2" -> 2 [] c = "5" -> 5

\* str.strip()
RECURSIVE LStrip(_)
LStrip(cs) == IF cs # <<>> /\ Head(cs) = " " THEN LStrip(Tail(cs)) ELSE cs

RECURSIVE RStrip(_)
RStrip(cs) ==
    IF cs # <<>> /\ cs[Len(cs)] = " " THEN RStrip(SubSeq(cs, 1, Len(cs) - 1)) ELSE cs

strip(cs) == RStrip(LStrip(cs))

\* str.replace(",", ".")
replace(cs) == [i \in 1..Len(cs) |-> IF cs[i] = "," THEN "." ELSE cs[i]]

\* re.sub(r"[^\d,.\-]", "", value)
re_sub(cs) == SelectSeq(cs, LAMBDA c : c \in Digits \cup {",", ".", "-"})

\* the value of a run of digits
RECURSIVE DigitsValue(_)
DigitsValue(cs) ==
    IF cs = <<>> THEN 0
    ELSE 10 * DigitsValue(SubSeq(cs, 1, Len(cs) - 1)) + DigitValue(cs[Len(cs)])

AllDigits(cs) == \A i \in 1..Len(cs) : cs[i] \in Digits

NoFloat == [ok |-> FALSE, v |-> 0]

\* float(s) on a string of digits, points and minus signs: an optional
\* sign, then digits with at most one point and at least one digit;
\* ValueError otherwise.  The value is in tenths (the texts carry one
\* decimal at most).
float(cs) ==
    LET neg == cs # <<>> /\ Head(cs) = "-"
        body == IF neg THEN Tail(cs) ELSE cs
        dots == {i \in 1..Len(body) : body[i] = "."}
        whole == IF dots = {} THEN body
                 ELSE SubSeq(body, 1, (CHOOSE i \in dots : TRUE) - 1)
        frac == IF dots = {} THEN <<>>
                ELSE SubSeq(body, (CHOOSE i \in dots : TRUE) + 1, Len(body))
        mag == 10 * DigitsValue(whole)
               + (IF frac = <<>> THEN 0 ELSE DigitValue(frac[1]))
    IN IF /\ Cardinality(dots) <= 1
          /\ AllDigits(whole) /\ AllDigits(frac)
          /\ Len(whole) + Len(frac) >= 1
       THEN [ok |-> TRUE, v |-> IF neg THEN 0 - mag ELSE mag]
       ELSE NoFloat

\* el.tag.endswith(key): the key is no part of the namespace
endswith(tag, key) ==
    /\ Len(key) <= Len(tag.local)
    /\ SubSeq(tag.local, Len(tag.local) - Len(key) + 1, Len(tag.local)) = key

\* max(values): the first of the greatest
max_first(values) == values[1]

RECURSIVE max(_)
max(values) ==
    IF Len(values) = 1 THEN values[1]
    ELSE LET m == max(SubSeq(values, 1, Len(values) - 1)) IN
         IF values[Len(values)] > m THEN values[Len(values)] ELSE m

Name(w) == <<w>>

\* ASSET_TAGS of parse_xbrl.py, in the order of the dict
ASSET_TAGS ==
    << <<[prefix |-> "e", local |-> Name("FixturesAndFittingsToolsAndEquipment")],
         "Fixtures, fittings, tools and equipment">>,
       <<[prefix |-> "e", local |-> <<"Other", "TangibleFixedAssets">>],
         "Other tangible fixed assets">>,
       <<[prefix |-> "e", local |-> Name("Inventories")], "Inventories">>,
       <<[prefix |-> "fsa", local |-> Name("RawMaterialsAndConsumables")],
         "Inventories (Raw materials and consumables)">>,
       <<[prefix |-> "fsa", local |-> Name("FinishedGoodsAndGoodsForResale")],
         "Inventories (Finished goods and resale)">>,
       <<[prefix |-> "e", local |-> <<"LandAnd", "Buildings">>], "Land and buildings">>,
       <<[prefix |-> "e", local |-> Name("Vehicles")], "Vehicles">>,
       <<[prefix |-> "e", local |-> Name("TangibleFixedAssets")],
         "Tangible fixed assets, total">> >>

\* value = float(el.text.strip().replace(",", ".")); AttributeError on a
\* missing text and ValueError are passed over
TextValue(text) ==
    IF text = NoText THEN NoFloat ELSE float(replace(strip(text.cs)))

\* the list values of one tag
RECURSIVE ValuesOf(_, _)
ValuesOf(elements, local_tag) ==
    IF elements = <<>> THEN <<>>
    ELSE LET el == Head(elements)
             x == TextValue(el.text)
         IN (IF endswith(el.tag, local_tag) /\ x.ok THEN <<x.v>> ELSE <<>>)
            \o ValuesOf(Tail(elements), local_tag)

\* results.append(...)
Emit_front(rs, field) == <<field>> \o rs

Emit(rs, field) == Append(rs, field)

\* the loop over ASSET_TAGS.items()
RECURSIVE AssetLoop(_, _, _)
AssetLoop(elements, tags, rs) ==
    IF tags = <<>> THEN rs
    ELSE LET tag == Head(tags)[1]
             values == ValuesOf(elements, tag.local)
         IN AssetLoop(elements, Tail(tags),
                IF values # <<>>
                THEN Emit(rs, [tag |-> tag, name |-> Head(tags)[2],
                                    value |-> max(values)])
                ELSE rs)

ExtractResult(o, rs) == [outcome |-> o, results |-> rs]

\* parse_xbrl_assets of parse_xbrl.py: BytesIO of what is no bytes raises
\* TypeError, ET.parse of what is not well-formed raises ParseError
parse_xbrl_assets(xml_content, tags) ==
    IF xml_content.kind = "dict" THEN ExtractResult("TypeError", <<>>)
    ELSE IF ~xml_content.wellformed THEN ExtractResult("ParseError", <<>>)
    ELSE ExtractResult("returned", AssetLoop(xml_content.elements, tags, <<>>))

\* FIELD_MAP of Fetch.parse_xbrl_assets, in the order of the dict
FIELD_MAP ==
    << <<Name("PropertyPlantAndEquipment"), "Tangible assets (IFRS)">>,
       <<Name("TangibleFixedAssets"), "Tangible assets (Danish GAAP)">>,
       <<<<"LandAnd", "Buildings">>, "Land and buildings">>,
       <<Name("Buildings"), "Buildings">>,
       <<Name("Vehicles"), "Vehicles">>,
       <<Name("FixturesAndFittingsToolsAndEquipment"), "Fixtures, fittings & tools">>,
       <<<<"Other", "TangibleFixedAssets">>, "Other tangible fixed assets">>,
       <<Name("IntangibleAssets"), "Intangible assets">>,
       <<Name("Goodwill"), "Goodwill">>,
       <<Name("DevelopmentCosts"), "Development costs">>,
       <<Name("Inventories"), "Inventories">>,
       <<Name("RawMaterialsAndConsumables"), "Raw materials & consumables">>,
       <<Name("FinishedGoodsAndGoodsForResale"), "Finished goods & resale goods">>,
       <<Name("Equity"), "Equity">>,
       <<Name("Provisions"), "Provisions">>,
       <<Name("LongTermDebt"), "Long-term debt">>,
       <<Name("ShortTermDebt"), "Short-term debt">>,
       <<Name("CurrentLiabilities"), "Current liabilities">>,
       <<<<"TotalLiabilitiesAnd", "Equity">>, "Liabilities + Equity (total)">> >>

\* the list order of Fetch.parse_xbrl_assets
order ==
    <<"Tangible assets (Danish GAAP)", "Tangible assets (IFRS)",
      "Land and buildings", "Buildings", "Vehicles",
      "Fixtures, fittings & tools", "Other tangible fixed assets",
      "Intangible assets", "Goodwill", "Development costs",
      "Inventories", "Raw materials & consumables", "Finished goods & resale goods",
      "Equity", "Provisions", "Long-term debt", "Short-term debt",
      "Current liabilities", "Liabilities + Equity (total)">>

\* to_float(el.text.strip() if el.text else ""): None on an empty string
\* and on ValueError
to_float(text) ==
    LET value == IF text = NoText \/ text.cs = <<>> THEN <<>> ELSE strip(text.cs)
    IN IF value = <<>> THEN NoFloat ELSE float(replace(re_sub(value)))

\* the list numbers of one key
RECURSIVE NumbersFor(_, _)
NumbersFor(elements, key) ==
    IF elements = <<>> THEN <<>>
    ELSE LET el == Head(elements)
             num == to_float(el.text)
         IN (IF endswith(el.tag, key) /\ num.ok /\ num.v # 0 THEN <<num.v>> ELSE <<>>)
            \o NumbersFor(Tail(elements), key)

\* the loop over FIELD_MAP.items()
RECURSIVE FieldLoop(_, _, _)
FieldLoop(elements, fields, rs) ==
    IF fields = <<>> THEN rs
    ELSE LET key == Head(fields)[1]
             numbers == NumbersFor(elements, key)
         IN FieldLoop(elements, Tail(fields),
                IF numbers # <<>>
                THEN Emit(rs, [tag |-> key, label |-> Head(fields)[2],
                                    value |-> max(numbers)])
                ELSE rs)

\* order.index(x["label"]) if x["label"] in order else len(order)
SortKey(x) ==
    IF \E i \in 1..Len(order) : order[i] = x.label
    THEN (CHOOSE i \in 1..Len(order) : order[i] = x.label) - 1
    ELSE Len(order)

\* results.sort(key=...): a stable sort
RECURSIVE InsertSorted(_, _)
InsertSorted(sorted, x) ==
    IF sorted = <<>> THEN <<x>>
    ELSE IF SortKey(sorted[Len(sorted)]) <= SortKey(x) THEN Append(sorted, x)
    ELSE Append(InsertSorted(SubSeq(sorted, 1, Len(sorted) - 1), x),
                sorted[Len(sorted)])

RECURSIVE sort(_)
sort(rs) ==
    IF rs = <<>> THEN <<>>
    ELSE InsertSorted(sort(SubSeq(rs, 1, Len(rs) - 1)), rs[Len(rs)])

\* Fetch.parse_xbrl_assets: [] for the fallback dict and for a document
\* that ET.parse rejects
Fetch_parse_xbrl_assets(xml_content) ==
    IF xml_content.kind = "dict" THEN ExtractResult("returned", <<>>)
    ELSE IF ~xml_content.wellformed THEN ExtractResult("returned", <<>>)
    ELSE ExtractResult("returned",
             sort(FieldLoop(xml_content.elements, FIELD_MAP, <<>>)))

NotCalled == ExtractResult("none", <<>>)

\* the module's table after a call: the call reads it and assigns nothing
TableAfter_consumed(tags) == Tail(tags)

TableAfter(tags) == tags

\* a call of parse_xbrl_assets, the first or the second on the same bytes
parse_xbrl_assets_call ==
    /\ ax_calls \in {0, 1}
    /\ ax_calls' = ax_calls + 1
    /\ ax_out' = parse_xbrl_assets(ax_doc, ax_tags)
    /\ ax_first' = IF ax_calls = 0 THEN ax_out' ELSE ax_first
    /\ ax_tags' = TableAfter(ax_tags)
    /\ UNCHANGED <<ax_doc, fx_out, fx_first, fx_calls>>
    /\ UNCHANGED searchVars
    /\ UNCHANGED syncVars
    /\ UNCHANGED legacyVars
    /\ UNCHANGED dekretVars
    /\ UNCHANGED normVars
    /\ UNCHANGED serviceVars

\* a call of Fetch.parse_xbrl_assets, the first or the second
Fetch_parse_xbrl_assets_call ==
    /\ fx_calls \in {0, 1}
    /\ fx_calls' = fx_calls + 1
    /\ fx_out' = Fetch_parse_xbrl_assets(ax_doc)
    /\ fx_first' = IF fx_calls = 0 THEN fx_out' ELSE fx_first
    /\ UNCHANGED <<ax_doc, ax_tags, ax_out, ax_first, ax_calls>>
    /\ UNCHANGED searchVars
    /\ UNCHANGED syncVars
    /\ UNCHANGED legacyVars
    /\ UNCHANGED dekretVars
    /\ UNCHANGED normVars
    /\ UNCHANGED serviceVars

(***************************************************************************)
(* What the upstreams may hold and answer.                                 *)
(***************************************************************************)
\* What an enrichment call comes to.  An answer is "notfound" (status 404,
\* or an empty payload), "error" (timeout, connection error, another
\* non-success status, a body that does not decode: a RequestException),
\* "malformed" (a payload of the wrong shape, on which the mapping raises
\* AttributeError) or "ok".
Answer(k, c, n, f) == [kind |-> k, cvr |-> c, name |-> n, firm |-> f, address |-> Null]

Failures == {Answer(k, Null, Null, Null) : k \in {"notfound", "error", "malformed"}}

CaseDict(m) ==
    [messageNumber |-> m, company_name |-> "A", lawyer_name |-> "L", cvr |-> Null]

\* cases with a message number and with an empty one
KeyedCases == {CaseDict(m) : m \in {"", "M1"}}

\* and cases without a message number
KeyCases == KeyedCases \cup {CaseDict(Null)}

\* two cases that name the same company and the same lawyer
OverlapCases == {CaseDict(m) : m \in {"M1", "M2"}}

\* the registry knows the company or does not
OverlapCompany == {Answer("notfound", Null, Null, Null), Answer("ok", "C1", Null, Null)}

\* the directory gives the lawyer with a firm or without one
OverlapLawyer == {Answer("ok", Null, "L1", f) : f \in {"F1", Null}}

OneCompany == Failures \cup {Answer("ok", "C1", Null, Null)}

OneLawyer == Failures \cup {Answer("ok", Null, "L1", "F1")}

\* the records of a day: one without cvr, one without lawyer, and the
\* lawyer's name in two spellings with one of two firms
LegacyRecords ==
    {[cvr |-> Null, lawyer_name |-> "L1", lawyer_firm |-> "F1"],
     [cvr |-> "C1", lawyer_name |-> Null, lawyer_firm |-> Null]}
    \cup {[cvr |-> "C1", lawyer_name |-> n, lawyer_firm |-> f] :
              n \in {"L1", "l1"}, f \in {"F1", "F2"}}

\* what AdvokatService.fetch_lawyer comes to: an exception, None, a payload
\* that is no object, or the details of the lawyer
LegacyDetails ==
    {[kind |-> k, firm |-> Null, complete |-> FALSE] : k \in {"error", "notfound", "malformed"}}
    \cup {[kind |-> "ok", firm |-> "F2", complete |-> FALSE],
          [kind |-> "ok", firm |-> Null, complete |-> TRUE]}

\* what CvrService.fetch_company and extract_assets come to
LegacyAssets == {"error", "notfound", "malformed", "ok"}

\* the records of a batch: two companies with the same lawyer, and a record
\* without cvr; a batch may hold a record several times
BatchRecords ==
    {[cvr |-> c, lawyer_name |-> "L1", lawyer_firm |-> "F1"] : c \in {Null, "C1", "C2"}}

\* the directory fails, answers with no object, or with the full details
BatchDetails ==
    {[kind |-> k, firm |-> Null, complete |-> FALSE] : k \in {"error", "malformed"}}
    \cup {[kind |-> "ok", firm |-> Null, complete |-> TRUE]}

\* cases that carry a cvr of their own, or none
CaseWith(m, c) == [CaseDict(m) EXCEPT !.cvr = c]

RelinkCases == {CaseWith("M1", c) : c \in {Null, "C1"}}

\* the registry knows the company, with or without an address, or fails
RelinkCompany ==
    {Answer(k, Null, Null, Null) : k \in {"notfound", "error"}}
    \cup {[Answer("ok", "C1", Null, Null) EXCEPT !.address = a] : a \in {Null, "A1"}}

\* the directory knows a lawyer of that name in one of two firms, or none
RelinkLawyer ==
    {Answer("notfound", Null, Null, Null)}
    \cup {Answer("ok", Null, "L1", f) : f \in {"F1", "F2"}}

\* what a document may hold: objects with any of three keys in any order,
\* lists and strings that hold the names of the required keys, a number
\* and null
NormKeys == {fieldgroups, defaultfieldgroups, <<"x">>}

KeyOrders ==
    {ks \in UNION {[1..n -> NormKeys] : n \in 0..Cardinality(NormKeys)} :
        \A i, j \in 1..Len(ks) : ks[i] = ks[j] => i = j}

GroupValues == {JList(<<>>), JList(<<JStr(<<"x">>)>>)}

ObjectOf(ks, g) ==
    JDict([i \in 1..Len(ks) |->
              <<ks[i], IF ks[i] = fieldgroups THEN g
                       ELSE IF ks[i] = defaultfieldgroups THEN JList(<<>>)
                       ELSE JNum(5)>>])

NormObjects == {ObjectOf(ks, g) : ks \in KeyOrders, g \in GroupValues}

NormOthers ==
    {PyNone, JNum(5), JStr(<<"x">>), JStr(fieldgroups), JStr(defaultfieldgroups),
     JList(<<>>), JList(<<JStr(fieldgroups)>>),
     JList(<<JStr(fieldgroups), JStr(defaultfieldgroups)>>)}

\* JSON text: every value spelled with and without blanks, text that is
\* cut short or runs on, an object that names a key twice, and the empty
\* string
NormTexts ==
    {Text(Spelled(v, sep)) : v \in NormObjects \cup NormOthers,
                             sep \in {<<>>, <<Tok("ws")>>}}
    \cup {Text(<<>>), Text(<<Tok("{")>>),
          Text(json_dumps(ObjectOf(<<fieldgroups>>, JList(<<>>))) \o <<Tok("}")>>),
          Text(<<Tok("{"), StrTok(fieldgroups), Tok(":"), NumTok(5), Tok(","),
                 StrTok(defaultfieldgroups), Tok(":"), NumTok(5), Tok(","),
                 StrTok(fieldgroups), Tok(":"), Tok("null"), Tok("}"), Tok("ws")>>)}

\* the document of a message: a str, an object, or neither
NormDocs ==
    NormTexts \cup NormObjects
    \cup {Absent, PyNone, JNum(5), JList(<<JStr(fieldgroups), JStr(defaultfieldgroups)>>)}

NormMessage(d, g) ==
    [document |-> d, _document_obj |-> Absent, fieldGroups |-> g,
     defaultFieldGroups |-> Absent]

NormMessages == {NormMessage(d, g) : d \in NormDocs, g \in {Absent, JList(<<>>)}}

\* the input of an extractor: the fallback dict of download_xbrl, bytes
\* that are no well-formed XML, or a document
Fallback == [kind |-> "dict", wellformed |-> FALSE, elements |-> <<>>]

Malformed == [kind |-> "bytes", wellformed |-> FALSE, elements |-> <<>>]

Document(els) == [kind |-> "bytes", wellformed |-> TRUE, elements |-> els]

Element(ns, local, text) == [tag |-> [ns |-> ns, local |-> local], text |-> text]

\* documents of up to MaxElements elements
DocumentsOf(E) ==
    {Document(els) : els \in UNION {[1..n -> E] : n \in 0..MaxElements}}

\* texts of elements: none, empty, blank, no number, zero, and numbers with
\* blanks around them, a sign, a decimal comma or a currency
ValueTexts ==
    {NoText, Chars(<<>>), Chars(<<"n", "/", "a">>), Chars(<<"0">>),
     Chars(<<"1", "0", "0">>), Chars(<<" ", "2", "5", "0", " ">>),
     Chars(<<"-", "5", "0", "0">>), Chars(<<"1", ",", "5">>),
     Chars(<<"D", "K", "K", " ", "1", "0", "0">>)}

\* elements of two watched names and of one that no table holds
ValueElements ==
    {Element("{fsa}", l, t) :
        l \in {Name("Vehicles"), Name("Inventories"), Name("Assets")},
        t \in ValueTexts}

\* elements by name: watched names, names that end with a watched name, and
\* a name no table holds; with and without namespace
NameElements ==
    {Element(nl[1], nl[2], t) :
        nl \in {<<"", Name("Buildings")>>, <<"{fsa}", Name("Buildings")>>,
                <<"{fsa}", <<"LandAnd", "Buildings">> >>,
                <<"{fsa}", Name("TangibleFixedAssets")>>,
                <<"{fsa}", <<"Other", "TangibleFixedAssets">> >>,
                <<"{fsa}", Name("PropertyPlantAndEquipment")>>,
                <<"{fsa}", Name("Equity")>>,
                <<"{fsa}", <<"TotalLiabilitiesAnd", "Equity">> >>,
                <<"{fsa}", Name("Assets")>>},
        t \in {Chars(<<"1", "0", "0">>), Chars(<<"2", "5", "0">>)}}

(***************************************************************************)
(* Part VII.  Runs of run_daily_sync that overlap                          *)
(* (microservices/aggregator/main.py).  sync_today and sync_date hand      *)
(* run_daily_sync to the background tasks of the server, which run each    *)
(* task on a worker thread with a session of its own.  A task's round for  *)
(* a case reads the rows committed when it looks them up and writes in its *)
(* own transaction; at its commit the database applies the writes to the   *)
(* rows committed by then and checks the keys.                             *)
(***************************************************************************)

\* the tasks the server can hold at once
Runs == {1, 2}

\* a task slot that holds no task
NoRun ==
    [pc |-> "idle", via |-> "none", cases |-> <<>>, idx |-> 0, base |-> EmptyDb,
     view |-> EmptyDb, raised |-> "none", rolled |-> {}, outcome |-> "none"]

\* the Lawyer rows a transaction inserted
NewLawyers(base, view) ==
    {l \in view.lawyers : l.id \notin {b.id : b \in base.lawyers}}

\* the rows the database holds once the writes of a transaction, made on
\* the rows `base`, are applied to the rows `cur` committed by then: an
\* inserted Lawyer or InsolvencyCase takes the next id, a Company or an
\* InsolvencyCase that was updated is replaced by its key
Apply(cur, base, view) ==
    LET new_ids == {l.id : l \in NewLawyers(base, view)}
        lid(x) == IF x \in new_ids THEN NextId(cur.lawyers) ELSE x
        nl == {[l EXCEPT !.id = NextId(cur.lawyers)] : l \in NewLawyers(base, view)}
        wc == {[c EXCEPT !.lawyer_id = lid(@)] : c \in view.companies \ base.companies}
        upc == {c \in wc : c.cvr \in {b.cvr : b \in base.companies}}
        wk == {[c EXCEPT !.lawyer_id = lid(@),
                         !.id = IF c.id \in {b.id : b \in base.cases}
                                THEN @ ELSE NextId(cur.cases)] :
                  c \in view.cases \ base.cases}
        upk == {c \in wk : c.id \in {b.id : b \in base.cases}}
    IN [lawyers |-> cur.lawyers \cup nl,
        companies |-> {c \in cur.companies : c.cvr \notin {u.cvr : u \in upc}} \cup wc,
        cases |-> {c \in cur.cases : c.id \notin {u.id : u \in upk}} \cup wk]

\* the database refuses the writes: a primary key or a unique constraint is
\* violated by a row another transaction committed meanwhile
Conflict(cur, base, view) ==
    \/ \E c \in view.companies \ base.companies :
          /\ c.cvr \notin {b.cvr : b \in base.companies}
          /\ c.cvr \in {b.cvr : b \in cur.companies}
    \/ UniqueViolated(Apply(cur, base, view))

\* the slot a new task takes
FreeRun == CHOOSE r \in Runs : ov_run[r].pc = "idle" /\ \A q \in Runs : ov_run[q].pc = "idle" => r <= q

\* background_tasks.add_task(run_daily_sync): the task starts and fetches
\* its listing; nothing looks at the tasks already running
add_task(via) ==
    /\ \E r \in Runs : ov_run[r].pc = "idle"
    /\ \E f \in {"ok", "RequestException"} :
          IF f = "ok"
          THEN \E l \in ListsOf(env.cases, MaxCases) :
                  ov_run' = [ov_run EXCEPT ![FreeRun] =
                                [NoRun EXCEPT !.pc = IF l = <<>> THEN "done" ELSE "loop",
                                              !.via = via, !.cases = l,
                                              !.outcome = IF l = <<>> THEN "returned"
                                                          ELSE "none"]]
          ELSE ov_run' = [ov_run EXCEPT ![FreeRun] =
                             [NoRun EXCEPT !.pc = "done", !.via = via,
                                           !.outcome = "returned"]]
    /\ UNCHANGED ov_db

\* POST /sync/today
sync_today ==
    /\ add_task("sync_today")
    /\ UNCHANGED <<searchVars, syncVars, legacyVars, dekretVars, normVars, extractVars>>
    /\ UNCHANGED <<schedVars, cvrVars>>

\* POST /sync/{date_iso}
sync_date ==
    /\ add_task("sync_date")
    /\ UNCHANGED <<searchVars, syncVars, legacyVars, dekretVars, normVars, extractVars>>
    /\ UNCHANGED <<schedVars, cvrVars>>

\* process_insolvency_case of task r for its next case, on the rows
\* committed at that time
run_daily_sync_task_process(r) ==
    /\ ov_run[r].pc = "loop"
    /\ \E ca \in env.cvr, la \in env.lawyer :
          LET case == ov_run[r].cases[ov_run[r].idx + 1]
              res == process_insolvency_case(ov_db, env.fk, case, ca, la)
          IN ov_run' = [ov_run EXCEPT ![r] =
                           [@ EXCEPT !.pc = "commit", !.base = ov_db,
                                     !.view = res.view, !.raised = res.raised]]
    /\ UNCHANGED ov_db
    /\ UNCHANGED <<searchVars, syncVars, legacyVars, dekretVars, normVars, extractVars>>
    /\ UNCHANGED <<schedVars, cvrVars>>

\* the end of the round of task r: session.commit(), or an except clause
\* with its session.rollback(); then the next case
run_daily_sync_task_commit(r) ==
    /\ ov_run[r].pc = "commit"
    /\ LET t == ov_run[r]
           exc == IF t.raised # "none" THEN t.raised
                  ELSE IF Conflict(ov_db, t.base, t.view) THEN "IntegrityError"
                  ELSE "none"
           last_case == t.idx + 1 = Len(t.cases)
       IN IF exc = "none"
          THEN /\ ov_db' = commit(Apply(ov_db, t.base, t.view))
               /\ ov_run' = [ov_run EXCEPT ![r] =
                                [@ EXCEPT !.idx = @ + 1, !.base = EmptyDb, !.view = EmptyDb,
                                          !.pc = IF last_case THEN "done" ELSE "loop",
                                          !.outcome = IF last_case THEN "returned"
                                                      ELSE "none"]]
          ELSE IF LoopCatches(exc)
          THEN /\ ov_db' = ov_db
               /\ ov_run' = [ov_run EXCEPT ![r] =
                                [@ EXCEPT !.idx = @ + 1, !.base = EmptyDb, !.view = EmptyDb,
                                          !.raised = "none",
                                          !.rolled = @ \cup {t.idx + 1},
                                          !.pc = IF last_case THEN "done" ELSE "loop",
                                          !.outcome = IF last_case THEN "returned"
                                                      ELSE "none"]]
          ELSE /\ ov_db' = ov_db
               /\ ov_run' = [ov_run EXCEPT ![r] =
                                [@ EXCEPT !.base = EmptyDb, !.view = EmptyDb,
                                          !.pc = "done", !.outcome = "raised"]]
    /\ UNCHANGED <<searchVars, syncVars, legacyVars, dekretVars, normVars, extractVars>>
    /\ UNCHANGED <<schedVars, cvrVars>>

(***************************************************************************)
(* Part VIII.  start_scheduler and shutdown_scheduler                      *)
(* (microservices/aggregator/scheduler.py).  The module keeps one global,  *)
(* _scheduler.  The scheduler objects are APScheduler's: add_job with      *)
(* next_run_time=None adds the job paused, start() makes the scheduler     *)
(* running, shutdown() makes it not running, and a running scheduler       *)
(* invokes at a trigger time the jobs it holds that are not paused.  A     *)
(* CronTrigger made without timezone takes the local zone of the host, not *)
(* the zone of the scheduler it is added to.                               *)
(***************************************************************************)

\* the functions the callers hand to start_scheduler
JobFuncs == {"fetch_daily_insolvencies", "run_daily_sync"}

\* None, as the value of _scheduler
NoScheduler == 0

\* timezone("Europe/Copenhagen")
cet == "Europe/Copenhagen"

\* the zones the host can be set to
Zones == {cet, "UTC"}

\* CronTrigger(hour=6, minute=0), made on a host whose zone is local
CronTrigger(local) == [hour |-> 6, minute |-> 0, timezone |-> local]

\* an entry of the history: a call, or 06:00 striking in a zone
Event(e, zone) == [event |-> e, zone |-> zone]

\* BackgroundScheduler(timezone=cet): not running, no job
BackgroundScheduler == [running |-> FALSE, timezone |-> cet, jobs |-> <<>>]

\* scheduler.add_job(func, trigger=, name=, next_run_time=, replace_existing=):
\* without an id the job is a new one; next_run_time None adds it paused
add_job(scheduler, func, trigger, next_run_time) ==
    [scheduler EXCEPT !.jobs = Append(@, [func |-> func, trigger |-> trigger,
                                          name |-> "daily_insolvency_ingestion",
                                          paused |-> next_run_time = Null])]

\* scheduler.start()
start(scheduler) == [scheduler EXCEPT !.running = TRUE]

\* scheduler.shutdown(wait=False)
shutdown(scheduler) == [scheduler EXCEPT !.running = FALSE]

\* _scheduler and _scheduler.running
SchedulerRunning == _scheduler # NoScheduler /\ sc_made[_scheduler].running

\* the jobs a scheduler invokes when 06:00 strikes in a zone
Fired(scheduler, zone) ==
    IF scheduler.running
    THEN SelectSeq(scheduler.jobs, LAMBDA j : ~j.paused /\ j.trigger = CronTrigger(zone))
    ELSE <<>>

RECURSIVE FiredAll(_, _)
\* the same, over the schedulers made so far
FiredAll(made, zone) ==
    IF made = <<>> THEN <<>>
    ELSE FiredAll(SubSeq(made, 1, Len(made) - 1), zone) \o Fired(made[Len(made)], zone)

\* start_scheduler that makes a scheduler whenever it is called
start_scheduler_always(job_func) ==
    /\ Len(sc_hist) < MaxEvents
    /\ \E local \in Zones :
          LET scheduler ==
                  start(add_job(BackgroundScheduler, job_func, CronTrigger(local), Null))
          IN /\ sc_made' = Append(sc_made, scheduler)
             /\ _scheduler' = Len(sc_made) + 1
             /\ sc_ret' = Len(sc_made) + 1
    /\ sc_hist' = Append(sc_hist, Event("start_scheduler", "none"))
    /\ UNCHANGED sc_invoked
    /\ UNCHANGED <<searchVars, syncVars, legacyVars, dekretVars, normVars, extractVars>>
    /\ UNCHANGED <<overlapVars, cvrVars>>

start_scheduler(job_func) ==
    /\ Len(sc_hist) < MaxEvents
    /\ IF SchedulerRunning
       THEN /\ sc_ret' = _scheduler
            /\ UNCHANGED <<sc_made, _scheduler>>
       ELSE \E local \in Zones :
               LET scheduler ==
                       start(add_job(BackgroundScheduler, job_func, CronTrigger(local), Null))
               IN /\ sc_made' = Append(sc_made, scheduler)
                  /\ _scheduler' = Len(sc_made) + 1
                  /\ sc_ret' = Len(sc_made) + 1
    /\ sc_hist' = Append(sc_hist, Event("start_scheduler", "none"))
    /\ UNCHANGED sc_invoked
    /\ UNCHANGED <<searchVars, syncVars, legacyVars, dekretVars, normVars, extractVars>>
    /\ UNCHANGED <<overlapVars, cvrVars>>

shutdown_scheduler ==
    /\ Len(sc_hist) < MaxEvents
    /\ IF SchedulerRunning
       THEN /\ sc_made' = [sc_made EXCEPT ![_scheduler] = shutdown(@)]
            /\ _scheduler' = NoScheduler
       ELSE UNCHANGED <<sc_made, _scheduler>>
    /\ sc_hist' = Append(sc_hist, Event("shutdown_scheduler", "none"))
    /\ UNCHANGED <<sc_ret, sc_invoked>>
    /\ UNCHANGED <<searchVars, syncVars, legacyVars, dekretVars, normVars, extractVars>>
    /\ UNCHANGED <<overlapVars, cvrVars>>

\* the clock of a zone reaches 06:00
cron_0600(zone) ==
    /\ Len(sc_hist) < MaxEvents
    /\ sc_invoked' = FiredAll(sc_made, zone)
    /\ sc_hist' = Append(sc_hist, Event("06:00", zone))
    /\ UNCHANGED <<sc_made, _scheduler, sc_ret>>
    /\ UNCHANGED <<searchVars, syncVars, legacyVars, dekretVars, normVars, extractVars>>
    /\ UNCHANGED <<overlapVars, cvrVars>>

(***************************************************************************)
(* Part IX.  search_company and fetch_company_data of the registry, in     *)
(* their three implementations: the service microservices/cvr/main.py,     *)
(* the module cvr/fetch.py and the class Fetch of                          *)
(* microservices/cvr/fetch.py.  The registry answers a request with a      *)
(* status code; a search that is answered with 200 carries a list of hits. *)
(***************************************************************************)

\* the three implementations
MainPy == "microservices/cvr/main.py"
FetchModule == "cvr/fetch.py"
FetchClass == "microservices/cvr/fetch.py:Fetch"

\* the statuses the implementations name (the source spells the second and
\* the third with the letter O-slash), and the statuses of the hits: Null is
\* a hit without status
UNDERKONKURS == "UNDERKONKURS"
OPLOESTEFTERKONKURS == "OPLOESTEFTERKONKURS"
UNDERTVANGSOPLOESNING == "UNDERTVANGSOPLOESNING"
HitStatuses == {UNDERKONKURS, OPLOESTEFTERKONKURS, "NORMAL", Null}

\* the status codes the registry answers with
RegistryStatuses == {200, 403, 500}

\* the name the registry holds for a cvr number
SenesteNavn(c) ==
    CASE c = "C1" -> "N1"
      [] c = "C2" -> "N2"
      [] OTHER -> "N0"

\* one hit of r.json()["enheder"]
Entry(c, st) == [cvr |-> c, senesteNavn |-> SenesteNavn(c), status |-> st]

Entries == {Entry(c, st) : c \in {"C1", "C2", Null}, st \in HitStatuses}

\* the lists of hits of a search
Enheder == UNION {[1..n -> Entries] : n \in 0..MaxHits}

\* the test of the loop over the hits
Selected(impl, e) ==
    IF impl = FetchClass
    THEN \/ e.status \in {UNDERKONKURS, OPLOESTEFTERKONKURS, UNDERTVANGSOPLOESNING}
         \/ e.cvr # Null
    ELSE e.status = UNDERKONKURS

\* the loop over the hits: the first selected hit, or (None, None)
FirstSelected(impl, enheder) ==
    LET sel == {i \in DOMAIN enheder : Selected(impl, enheder[i])}
    IN IF sel = {} THEN <<Null, Null>>
       ELSE LET i == CHOOSE k \in sel : \A m \in sel : k <= m
            IN <<enheder[i].cvr, enheder[i].senesteNavn>>

\* what a call came to
Returned(v) == [outcome |-> "returned", value |-> v]
Raised(v) == [outcome |-> "raised", value |-> v]
NoOutcome == [outcome |-> "none", value |-> <<>>]

\* r.raise_for_status(), then the value
RaiseForStatus(status, v) ==
    IF status >= 400 THEN Raised(<<"HTTPError", status>>) ELSE Returned(v)

\* the latest call, in one shape for the three functions
Call(fn, impl, status, second, enheder) ==
    [fn |-> fn, impl |-> impl, status |-> status, second |-> second, enheder |-> enheder]

\* @lru_cache(maxsize=1) _ensure_cookies(): the requests a call issues
_ensure_cookies(cached) == IF cached THEN <<>> ELSE <<"base">>

\* on_startup, api_search and api_assets of the service call _ensure_cookies()
ensure_cookies_call ==
    /\ cv_calls < MaxLookups
    /\ cv_call' = Call("_ensure_cookies", MainPy, 0, 0, <<>>)
    /\ cv_log' = _ensure_cookies(cv_cached)
    /\ cv_cached' = TRUE
    /\ cv_ret' = Returned(<<>>)
    /\ cv_calls' = cv_calls + 1
    /\ UNCHANGED <<searchVars, syncVars, legacyVars, dekretVars, normVars, extractVars>>
    /\ UNCHANGED <<overlapVars, schedVars>>

search_company(impl, status, enheder) ==
    /\ cv_calls < MaxLookups
    /\ cv_call' = Call("search_company", impl, status, 0, enheder)
    /\ cv_log' = <<"search">>
    /\ cv_ret' = RaiseForStatus(status, FirstSelected(impl, enheder))
    /\ cv_calls' = cv_calls + 1
    /\ UNCHANGED cv_cached
    /\ UNCHANGED <<searchVars, syncVars, legacyVars, dekretVars, normVars, extractVars>>
    /\ UNCHANGED <<overlapVars, schedVars>>

\* the requests between the first company request and raise_for_status
Retry(impl, status, cached) ==
    IF status # 403 \/ impl = FetchClass THEN <<>>
    ELSE IF impl = MainPy THEN _ensure_cookies(cached) \o <<"company">>
    ELSE <<"base", "company">>

fetch_company_data(impl, status, second) ==
    /\ cv_calls < MaxLookups
    /\ LET retry == Retry(impl, status, cv_cached)
           r == IF retry = <<>> THEN status ELSE second
       IN /\ cv_call' = Call("fetch_company_data", impl, status,
                             IF retry = <<>> THEN 0 ELSE second, <<>>)
          /\ cv_log' = <<"company">> \o retry
          /\ cv_cached' = (cv_cached \/ (impl = MainPy /\ status = 403))
          /\ cv_ret' = RaiseForStatus(r, <<"json">>)
    /\ cv_calls' = cv_calls + 1
    /\ UNCHANGED <<searchVars, syncVars, legacyVars, dekretVars, normVars, extractVars>>
    /\ UNCHANGED <<overlapVars, schedVars>>

(***************************************************************************)
(* Specifications                                                          *)
(***************************************************************************)
SearchStart ==
    /\ attempt = 1
    /\ page = 0
    /\ page_count = 0
    /\ results = <<>>
    /\ last_err = NoErr
    /\ out = NoErr
    /\ reqlog = <<>>
    /\ got = <<>>

SyncIdle ==
    /\ db = EmptyDb
    /\ sess = EmptyDb
    /\ insolvencies = <<>>
    /\ index = 0
    /\ attempted = <<>>
    /\ run_pc = "idle"
    /\ run_outcome = "none"
    /\ run_result = Null
    /\ fetch_res = "ok"
    /\ last = NoLast
    /\ rolled = {}
    /\ again = FALSE
    /\ answers = <<>>
    /\ first_count = 0

SyncStart(record, fks, cases, cvrs, lawyers, commits) ==
    /\ env \in {[fk |-> f, record |-> record, cases |-> cases, cvr |-> cvrs,
                 lawyer |-> lawyers, commit |-> commits,
                 records |-> LegacyRecords, details |-> LegacyDetails,
                 assets |-> LegacyAssets] : f \in fks}
    /\ SyncIdle

ExtractStart(docs) ==
    /\ ax_doc \in docs
    /\ ax_tags = ASSET_TAGS
    /\ ax_out = NotCalled
    /\ ax_first = NotCalled
    /\ ax_calls = 0
    /\ fx_out = NotCalled
    /\ fx_first = NotCalled
    /\ fx_calls = 0

NormStart ==
    /\ nd_message = NormMessage(Absent, Absent)
    /\ nd_input = nd_message
    /\ nd_outcome = "none"

DekretStart ==
    /\ dk_pc = "idle"
    /\ dk_search = <<>>
    /\ dk_hits = <<>>
    /\ dk_pos = 0
    /\ dk_enriched = <<>>
    /\ dk_out = NoOut
    /\ dk_outcome = "none"
    /\ dk_fetched = <<>>

OverlapStart ==
    /\ ov_db = EmptyDb
    /\ ov_run = [r \in Runs |-> NoRun]

SchedStart ==
    /\ sc_made = <<>>
    /\ _scheduler = NoScheduler
    /\ sc_ret = NoScheduler
    /\ sc_invoked = <<>>
    /\ sc_hist = <<>>

CvrStart ==
    /\ cv_cached = FALSE
    /\ cv_call = Call("none", "none", 0, 0, <<>>)
    /\ cv_log = <<>>
    /\ cv_ret = NoOutcome
    /\ cv_calls = 0

ServiceStart == OverlapStart /\ SchedStart /\ CvrStart

LegacyStart ==
    /\ lg_pc = "idle"
    /\ lg_records = <<>>
    /\ lg_i = 0
    /\ lg_db = LegacyEmptyDb
    /\ lg_sess = LegacyEmptyDb
    /\ lg_cur = NoCur
    /\ lg_outcome = "none"
    /\ lg_calls = <<>>
    /\ lg_created = 0
    /\ lg_updated = 0
    /\ lg_result = NoCounts
    /\ lg_same = FALSE
    /\ lg_runs = 0

InitSearch ==
    /\ SearchStart
    /\ DekretStart
    /\ ServiceStart
    /\ NormStart
    /\ ExtractStart({Fallback})
    /\ LegacyStart
    /\ outcome = "running"
    /\ SyncStart(FALSE, {FALSE}, KeyedCases, OneCompany, OneLawyer, {TRUE})

NextSearch ==
    \/ try_one_page0
    \/ try_one_next_page
    \/ messagesearch_day

\* calls of messagesearch_day, one after the other
SpecSearch == InitSearch /\ [][NextSearch]_vars

\* every request returns or times out: a call under way takes its next step
SpecSearchLive ==
    /\ InitSearch
    /\ [][NextSearch]_vars
    /\ WF_vars(try_one_page0)
    /\ WF_vars(try_one_next_page)

InitSync ==
    /\ SearchStart
    /\ DekretStart
    /\ ServiceStart
    /\ NormStart
    /\ ExtractStart({Fallback})
    /\ LegacyStart
    /\ outcome = "returned"
    /\ SyncStart(FALSE, BOOLEAN, KeyedCases, OneCompany, OneLawyer, BOOLEAN)

NextSync ==
    \/ run_daily_sync_fetch
    \/ run_daily_sync_process
    \/ run_daily_sync_commit

\* runs of run_daily_sync, one after the other, on a database that starts empty
SpecSync == InitSync /\ [][NextSync]_vars

InitResync ==
    /\ SearchStart
    /\ DekretStart
    /\ ServiceStart
    /\ NormStart
    /\ ExtractStart({Fallback})
    /\ LegacyStart
    /\ outcome = "returned"
    /\ SyncStart(TRUE, BOOLEAN, KeyCases, OneCompany, OneLawyer, BOOLEAN)

NextResync ==
    \/ run_daily_sync_fetch
    \/ run_daily_sync_process
    \/ run_daily_sync_commit
    \/ run_daily_sync_again
    \/ run_daily_sync_process_again
    \/ run_daily_sync_commit_again

\* one day ingested twice in succession with the same upstream answers
SpecResync == InitResync /\ [][NextResync]_vars

InitRelink ==
    /\ SearchStart
    /\ DekretStart
    /\ ServiceStart
    /\ NormStart
    /\ ExtractStart({Fallback})
    /\ LegacyStart
    /\ outcome = "returned"
    /\ SyncStart(FALSE, BOOLEAN, RelinkCases, RelinkCompany, RelinkLawyer, {TRUE})

NextRelink ==
    \/ run_daily_sync_fetch
    \/ run_daily_sync_process
    \/ run_daily_sync_commit

\* runs that meet stored cases again with other enrichment results
SpecRelink == InitRelink /\ [][NextRelink]_vars

InitLegacy ==
    /\ SearchStart
    /\ DekretStart
    /\ ServiceStart
    /\ NormStart
    /\ ExtractStart({Fallback})
    /\ outcome = "returned"
    /\ SyncStart(FALSE, {FALSE}, KeyedCases, OneCompany, OneLawyer, BOOLEAN)
    /\ LegacyStart

NextLegacy ==
    \/ fetch_daily_insolvencies
    \/ fetch_daily_insolvencies_item
    \/ fetch_daily_insolvencies_enrich
    \/ fetch_daily_insolvencies_assets

\* runs of fetch_daily_insolvencies, one after the other
SpecLegacy == InitLegacy /\ [][NextLegacy]_vars

InitBatch ==
    /\ SearchStart
    /\ DekretStart
    /\ ServiceStart
    /\ NormStart
    /\ ExtractStart({Fallback})
    /\ outcome = "returned"
    /\ env = [fk |-> FALSE, record |-> FALSE, cases |-> KeyedCases,
              cvr |-> OneCompany, lawyer |-> OneLawyer, commit |-> BOOLEAN,
              records |-> BatchRecords, details |-> BatchDetails,
              assets |-> LegacyAssets]
    /\ SyncIdle
    /\ LegacyStart

\* runs of fetch_daily_insolvencies over batches that repeat records
SpecBatch == InitBatch /\ [][NextLegacy]_vars

InitOverlap ==
    /\ SearchStart
    /\ DekretStart
    /\ NormStart
    /\ ExtractStart({Fallback})
    /\ LegacyStart
    /\ outcome = "returned"
    /\ env = [fk |-> FALSE, record |-> FALSE, cases |-> OverlapCases,
              cvr |-> OverlapCompany, lawyer |-> OverlapLawyer, commit |-> {TRUE},
              records |-> LegacyRecords, details |-> LegacyDetails,
              assets |-> LegacyAssets]
    /\ SyncIdle
    /\ ServiceStart

NextOverlap ==
    \/ sync_today
    \/ sync_date
    \/ \E r \in Runs : run_daily_sync_task_process(r)
    \/ \E r \in Runs : run_daily_sync_task_commit(r)

\* two requests for a sync, the second arriving at any time
SpecOverlap == InitOverlap /\ [][NextOverlap]_vars

NextScheduler ==
    \/ \E job_func \in JobFuncs : start_scheduler(job_func)
    \/ shutdown_scheduler
    \/ \E zone \in Zones : cron_0600(zone)

\* any sequence of calls of the scheduler module, and the clock
SpecScheduler == InitOverlap /\ [][NextScheduler]_vars

NextCvr ==
    \/ ensure_cookies_call
    \/ \E impl \in {MainPy, FetchModule, FetchClass}, status \in RegistryStatuses,
          enheder \in Enheder : search_company(impl, status, enheder)
    \/ \E impl \in {MainPy, FetchModule, FetchClass}, status \in RegistryStatuses,
          second \in RegistryStatuses : fetch_company_data(impl, status, second)

\* calls of the registry functions, one after the other
SpecCvr == InitOverlap /\ [][NextCvr]_vars

InitDekret ==
    /\ SearchStart
    /\ outcome = "returned"
    /\ SyncStart(FALSE, {FALSE}, KeyedCases, OneCompany, OneLawyer, {TRUE})
    /\ LegacyStart
    /\ DekretStart
    /\ ServiceStart
    /\ NormStart
    /\ ExtractStart({Fallback})

NextDekret ==
    \/ api_messages_dekret
    \/ api_messages_dekret_hit

\* one call of api_messages_dekret
SpecDekret == InitDekret /\ [][NextDekret]_vars

InitNormalize ==
    /\ SearchStart
    /\ outcome = "returned"
    /\ SyncStart(FALSE, {FALSE}, KeyedCases, OneCompany, OneLawyer, {TRUE})
    /\ LegacyStart
    /\ DekretStart
    /\ ServiceStart
    /\ nd_message \in NormMessages
    /\ nd_input = nd_message
    /\ nd_outcome = "none"
    /\ ExtractStart({Fallback})

NextNormalize == normalize_document_inplace_call

\* one call of normalize_document_inplace on any message
SpecNormalize == InitNormalize /\ [][NextNormalize]_vars

InitExtract ==
    /\ SearchStart
    /\ outcome = "returned"
    /\ SyncStart(FALSE, {FALSE}, KeyedCases, OneCompany, OneLawyer, {TRUE})
    /\ LegacyStart
    /\ DekretStart
    /\ ServiceStart
    /\ NormStart
    /\ ExtractStart(DocumentsOf(ValueElements))

NextExtract ==
    \/ parse_xbrl_assets_call
    \/ Fetch_parse_xbrl_assets_call

\* the two extractors, each called twice, on a document whose elements
\* differ in their texts
SpecExtract == InitExtract /\ [][NextExtract]_vars

InitExtractNames ==
    /\ SearchStart
    /\ outcome = "returned"
    /\ SyncStart(FALSE, {FALSE}, KeyedCases, OneCompany, OneLawyer, {TRUE})
    /\ LegacyStart
    /\ DekretStart
    /\ ServiceStart
    /\ NormStart
    /\ ExtractStart(DocumentsOf(NameElements) \cup {Fallback, Malformed})

\* the two extractors on the fallback dict, on bytes that are no XML, and
\* on a document whose elements differ in their names
SpecExtractNames == InitExtractNames /\ [][NextExtract]_vars

(***************************************************************************)
(* Part I: properties of messagesearch_day                                 *)
(***************************************************************************)
RECURSIVE Flatten(_)
Flatten(ss) == IF ss = <<>> THEN <<>> ELSE Head(ss) \o Flatten(Tail(ss))

\* the requests of the strategy being tried, in the order they were issued
WonLog == SelectSeq(reqlog, LAMBDA e : e.attempt = attempt)

FailedRes == {"fault", "HTTPError", "ConnectionError", "JSONDecodeError"}

\* C1: when messagesearch_day returns, its results are exactly the pages
\* 0..pageCount-1 of one strategy, concatenated in page order, every one of
\* them read with success, and resultCount is the length of that list;
\* otherwise the call fails.
C1_CompleteOrFail ==
    outcome = "returned" =>
        /\ out.type = "dict"
        /\ Len(got) >= out.pageCount
        /\ out.results = Flatten(got)
        /\ out.resultCount = Len(out.results)
        /\ Len(WonLog) >= out.pageCount
        /\ \A i \in 1..out.pageCount :
              WonLog[i].params.page = i - 1 /\ WonLog[i].res = "ok"
        /\ Len(got) = Len(WonLog)

C1_Witness ==
    /\ outcome = "returned"
    /\ out.pageCount = 3
    /\ \A i \in 1..3 : Len(got[i]) = 1
    /\ attempt = 2

\* C2: messagesearch_day raises only after every one of the five strategies
\* has been attempted and has failed, whatever the kind of failure.
C2_FailsOnlyAfterAllStrategies ==
    outcome = "raised" =>
        \A a \in 1..Len(attempts) :
            \E i \in 1..Len(reqlog) :
                reqlog[i].attempt = a /\ reqlog[i].res \in FailedRes

\* C3 (as stated): no request follows a request that was answered with a
\* non-success status other than 500.
C3_NonFaultStatusStopsLadder ==
    \A i \in 1..Len(reqlog) :
        reqlog[i].res = "HTTPError" => i = Len(reqlog)

\* C3 (amended): a request answered with a non-success status, 500 or any
\* other, ends its strategy and the next strategy is tried from page 0; the
\* call raises for it only when it was a request of the last strategy, and
\* an HTTP error is raised only after all five strategies were attempted.
C3_StatusErrorTriesNext ==
    /\ \A i \in 1..Len(reqlog) :
          reqlog[i].res \in {"HTTPError", "fault"} =>
              IF reqlog[i].attempt < Len(attempts)
              THEN IF i < Len(reqlog)
                   THEN /\ reqlog[i + 1].attempt = reqlog[i].attempt + 1
                        /\ reqlog[i + 1].params.page = 0
                   ELSE /\ outcome = "running"
                        /\ attempt = reqlog[i].attempt + 1
                        /\ page = 0
              ELSE i = Len(reqlog) /\ outcome = "raised"
    /\ (outcome = "raised" /\ out.type \in {"HTTPError", "RuntimeError"}) =>
          /\ reqlog # <<>>
          /\ reqlog[Len(reqlog)].attempt = Len(attempts)
          /\ \A a \in 1..Len(attempts) :
                \E i \in 1..Len(reqlog) : reqlog[i].attempt = a

C3_Witness ==
    /\ outcome = "returned"
    /\ attempt = 3
    /\ \E i \in 1..Len(reqlog) : reqlog[i].res = "HTTPError" /\ reqlog[i].params.page = 1
    /\ \E i \in 1..Len(reqlog) : reqlog[i].res = "fault"

SameStrategy(p, q) == p.ps = q.ps /\ p.o = q.o /\ p.m = q.m

\* C4: the items collected, and in the end returned, were all served for
\* requests of one strategy; that strategy's requests ask for pages
\* 0, 1, .., pageCount-1 in this order, once each, with the page size, sort
\* order and type filter of its page 0; nothing collected by an abandoned
\* strategy is kept.
C4_SingleStrategy ==
    /\ \A i \in 1..Len(results) :
          /\ WonLog # <<>>
          /\ SameStrategy(results[i].req, WonLog[1].params)
    /\ \A i \in 1..Len(WonLog) :
          /\ WonLog[i].params.page = i - 1
          /\ SameStrategy(WonLog[i].params, WonLog[1].params)
    /\ outcome = "returned" =>
          /\ Len(WonLog) = (IF out.pageCount > 1 THEN out.pageCount ELSE 1)
          /\ \A i \in 1..Len(out.results) :
                /\ SameStrategy(out.results[i].req, WonLog[1].params)
                /\ out.results[i].req.page \in 0..(out.pageCount - 1)
    /\ (outcome = "running" /\ page = 0) => results = <<>>

C4_Witness ==
    /\ outcome = "returned"
    /\ attempt = 3
    /\ out.pageCount = 2
    /\ Len(out.results) = 2
    /\ \E i \in 1..Len(reqlog) :
          reqlog[i].attempt = 2 /\ reqlog[i].params.page = 1 /\ reqlog[i].res = "fault"

\* the order the strategies are to be tried in
LadderOrder ==
    << [ps |-> 10, o |-> 40, m |-> TRUE],
       [ps |-> 10, o |-> 40, m |-> FALSE],
       [ps |-> 20, o |-> 40, m |-> FALSE],
       [ps |-> 10, o |-> 0, m |-> FALSE],
       [ps |-> 50, o |-> 0, m |-> FALSE] >>

\* C5: the strategies are tried in the fixed order, strategy k only after
\* strategies 1..k-1 each failed, none twice; the result returned is that of
\* the first strategy that succeeds on all its pages, and the request that
\* completes it is the last request of the call.
C5_FixedOrder ==
    /\ \A i \in 1..Len(reqlog) :
          /\ reqlog[i].attempt \in 1..Len(LadderOrder)
          /\ SameStrategy(reqlog[i].params, LadderOrder[reqlog[i].attempt])
    /\ reqlog # <<>> => reqlog[1].attempt = 1
    /\ \A i \in 1..(Len(reqlog) - 1) :
          IF reqlog[i].res = "ok"
          THEN reqlog[i + 1].attempt = reqlog[i].attempt
          ELSE reqlog[i + 1].attempt = reqlog[i].attempt + 1
    /\ outcome = "returned" =>
          /\ reqlog[Len(reqlog)].attempt = attempt
          /\ reqlog[Len(reqlog)].res = "ok"
          /\ \A i \in 1..Len(reqlog) :
                reqlog[i].res # "ok" => reqlog[i].attempt < attempt
          /\ \A a \in 1..(attempt - 1) :
                \E i \in 1..Len(reqlog) :
                    reqlog[i].attempt = a /\ reqlog[i].res \in FailedRes

C5_Witness ==
    /\ outcome = "returned"
    /\ attempt = 5
    /\ out.pageCount = 2
    /\ Len(reqlog) >= 6

(***************************************************************************)
(* Part II: properties of run_daily_sync                                   *)
(***************************************************************************)

\* C6: ingesting the same day twice in succession, with the same upstream
\* answers, leaves as many InsolvencyCase rows as ingesting it once, also
\* for cases whose messageNumber is missing or empty.
C6_SecondRunAddsNoRow ==
    (again /\ run_pc = "done") => Cardinality(db.cases) = first_count

\* C7: no two committed InsolvencyCase rows share a message number and no
\* two committed Company rows share a cvr.
C7_NaturalKeysUnique ==
    /\ \A a, b \in db.cases :
          (a # b /\ a.message_number # Null) => a.message_number # b.message_number
    /\ \A a, b \in db.companies : a # b => a.cvr # b.cvr

C7_Witness ==
    /\ run_pc = "done"
    /\ index = 2
    /\ insolvencies[1].messageNumber = "M1"
    /\ insolvencies[2].messageNumber = ""
    /\ last.raised = "IntegrityError"
    /\ \E c \in db.cases : c.message_number = "" /\ c.id = 1
    /\ \E c \in db.cases : c.message_number = "M1" /\ c.id = 2 /\ c.cvr = "C1"
    /\ Cardinality(db.cases) = 2
    /\ Cardinality(db.companies) = 1

\* the round of the loop for one case ends: commit, or rollback
RoundEnds == run_pc = "commit" /\ run_pc' # "commit"

\* C8: the round of a case that was processed and committed without error
\* commits every write the case flushed to the session, and nothing else;
\* the round of a case that raised commits nothing, leaves the rows
\* committed before as they were and leaves the session without any of the
\* case's writes, and the loop goes on to the next case.
C8_PerCaseAtomicity ==
    [][RoundEnds =>
          /\ IF last'.raised = "none"
             THEN db' = sess /\ sess' = sess
             ELSE db' = db /\ sess' = db
          /\ index' = index + 1
          /\ run_outcome' # "raised"
          /\ run_pc' = (IF index' < Len(insolvencies) THEN "loop" ELSE "done")]_vars

C8_Witness ==
    /\ run_pc = "done"
    /\ Len(insolvencies) = 2
    /\ rolled = {1}
    /\ insolvencies[1].messageNumber = ""
    /\ \E c \in db.cases : c.message_number = "" /\ c.lawyer_id = 0
    /\ \E c \in db.cases : c.message_number = "M1" /\ c.lawyer_id = 1 /\ c.cvr = "C1"
    /\ \E c \in db.companies : c.lawyer_id = 1

\* C9 (as stated): process_insolvency_case never raises to its caller.
C9_ProcessNeverRaises == last.raised \in {"none", "OperationalError"}

\* C9 (amended): process_insolvency_case catches the request failures of
\* the registry call and of the lawyer-directory call and returns; what it
\* lets out is a storage failure or the error of mapping a payload of the
\* wrong shape, and run_daily_sync catches it, rolls the case back and goes
\* on.
C9_RequestFailuresCaught ==
    /\ last.raised \in {"none", "IntegrityError", "MultipleResultsFound",
                        "AttributeError", "OperationalError"}
    /\ (last.idx # 0 /\ last.idx = index /\ last.raised # "none") =>
          /\ sess = db
          /\ run_outcome # "raised"
          /\ run_pc \in {"loop", "done"}

C9_Witness ==
    /\ last.req_failed
    /\ last.raised = "none"
    /\ last.idx = index
    /\ \E c \in db.cases : c.id = 2 /\ c.cvr = Null /\ c.lawyer_id = 1

\* C10: once the listing is fetched, process_insolvency_case is called for
\* every case of the list, once, in list order, whatever the earlier cases
\* raised, and the run then returns.
C10_EveryCaseAttempted ==
    /\ Len(attempted) <= Len(insolvencies)
    /\ attempted = SubSeq(insolvencies, 1, Len(attempted))
    /\ Len(attempted) = (IF run_pc = "commit" THEN index + 1 ELSE index)
    /\ (fetch_res = "ok" /\ run_pc = "done") =>
          /\ run_outcome = "returned"
          /\ attempted = insolvencies

C10_Witness ==
    /\ fetch_res = "ok"
    /\ run_pc = "done"
    /\ Len(attempted) = 2
    /\ rolled = {1}
    /\ last.raised = "none"
    /\ Cardinality(db.cases) = 1

\* the round of the case processed last has ended
RoundEnded == last.idx # 0 /\ last.idx = index

StorageErrors == {"IntegrityError", "MultipleResultsFound", "OperationalError"}

\* C11: whatever way the registry call or the lawyer-directory call of a
\* case failed (request failure or malformed payload), once the round of the
\* case has ended without a storage failure the InsolvencyCase row of the
\* case is committed.
C11_EnrichmentFailureKeepsCase ==
    (/\ RoundEnded
     /\ \/ last.ca.kind \in {"error", "malformed"}
        \/ last.la.kind \in {"error", "malformed"}
     /\ last.raised \notin StorageErrors)
    => \E c \in db.cases : c.message_number = insolvencies[index].messageNumber

\* C13: a run whose listing fetch failed raises to its caller, having
\* called process_insolvency_case for no case and written nothing, and a
\* run raises for no other reason.
C13_FetchFailureRaises ==
    /\ (run_pc = "done" /\ fetch_res # "ok") =>
          /\ run_outcome = "raised"
          /\ attempted = <<>>
          /\ sess = db
    /\ run_outcome = "raised" => fetch_res # "ok"

\* C19: a delay lies between the last upstream call of every case whose
\* round has ended and the next case, whether the case was committed or
\* failed.
C19_DelayAfterEveryCase == RoundEnded => last.slept

(***************************************************************************)
(* Part II: what a committed round stores                                  *)
(***************************************************************************)

\* the case of the round that is ending
CurCase == insolvencies[last.idx]

\* the round of a case ends with its commit
RoundCommits == RoundEnds /\ last'.raised = "none"

\* the lawyer rows of a view that carry the profile of answer la
LawyerRows(view, la) == {l \in view.lawyers : l.name = la.name /\ l.firm = la.firm}

\* the lawyer resolved for the case of the round: the directory answered
\* with a profile that has a name
LawyerResolved == last.la.kind = "ok" /\ ~Falsy(last.la.name)

\* the company resolved for the case of the round
CompanyResolved == last.ca.kind = "ok" /\ ~Falsy(last.ca.cvr)

\* C12 (as stated): when the registry call of a case failed and its lawyer
\* call succeeded, the round commits a case row linked to the lawyer and no
\* change of the Company rows, and the row's cvr is null for a new case and
\* the stored cvr for a case stored before.
C12_CompanyRefNullOrUnchanged ==
    [][(RoundCommits /\ last.ca.kind = "error" /\ LawyerResolved) =>
          /\ db'.companies = db.companies
          /\ \E c \in db'.cases :
                /\ c.message_number = CurCase.messageNumber
                /\ \E l \in LawyerRows(db', last.la) : l.id = c.lawyer_id
                /\ c.cvr = (IF \E o \in db.cases : o.message_number = c.message_number
                            THEN (CHOOSE o \in db.cases :
                                     o.message_number = c.message_number).cvr
                            ELSE Null)]_vars

\* C12 (amended): when the registry call of a case raised a request failure
\* and its lawyer call succeeded, the round commits a case row linked to the
\* lawyer and no change of the Company rows, and the row's cvr is the cvr the
\* case itself carries (null when it carries none), for a new case and for a
\* case stored before alike.
C12_CompanyRefFromCase ==
    [][(RoundCommits /\ last.ca.kind = "error" /\ LawyerResolved) =>
          /\ db'.companies = db.companies
          /\ \E c \in db'.cases :
                /\ c.message_number = CurCase.messageNumber
                /\ \E l \in LawyerRows(db', last.la) : l.id = c.lawyer_id
                /\ c.cvr = CurCase.cvr]_vars

C12_Witness ==
    /\ run_pc = "commit"
    /\ last.raised = "none"
    /\ last.ca.kind = "error"
    /\ last.la.kind = "ok"
    /\ \E o \in db.cases : o.message_number = "M1" /\ o.cvr = "C1"
    /\ \E c \in sess.cases : c.message_number = "M1" /\ c.cvr = Null /\ c.lawyer_id # 0
    /\ sess.companies = db.companies

\* C15 (as stated): a committed round that meets a stored company again
\* leaves its address as stored when the registry answer has none, and its
\* lawyer_id as stored when no lawyer was resolved.
C15_StoredValueNotNulled ==
    [][(RoundCommits /\ CompanyResolved
        /\ \E o \in db.companies : o.cvr = last.ca.cvr) =>
          \E o \in db.companies, n \in db'.companies :
             /\ o.cvr = last.ca.cvr
             /\ n.cvr = last.ca.cvr
             /\ n.address = (IF last.ca.address = Null THEN o.address
                             ELSE last.ca.address)
             /\ ~LawyerResolved => n.lawyer_id = o.lawyer_id]_vars

\* C15 (amended): a committed round that meets a stored company again sets
\* every column of the dict built from the registry answer, a column the
\* answer does not provide to null; lawyer_id, which that dict holds only
\* when a lawyer was resolved, is that lawyer's id or else stays as stored;
\* no Company row is added.
C15_BuiltColumnsOverwritten ==
    [][(RoundCommits /\ CompanyResolved
        /\ \E o \in db.companies : o.cvr = last.ca.cvr) =>
          /\ Cardinality(db'.companies) = Cardinality(db.companies)
          /\ \E o \in db.companies, n \in db'.companies :
                /\ o.cvr = last.ca.cvr
                /\ n.cvr = last.ca.cvr
                /\ n.address = last.ca.address
                /\ n.name = (IF Falsy(last.ca.name) THEN CurCase.company_name
                             ELSE last.ca.name)
                /\ IF LawyerResolved
                   THEN \E l \in LawyerRows(db', last.la) : l.id = n.lawyer_id
                   ELSE n.lawyer_id = o.lawyer_id]_vars

C15_Witness ==
    /\ run_pc = "commit"
    /\ last.raised = "none"
    /\ last.ca.kind = "ok"
    /\ last.ca.address = Null
    /\ last.la.kind = "notfound"
    /\ \E o \in db.companies : o.cvr = "C1" /\ o.address = "A1" /\ o.lawyer_id = 1
    /\ \E n \in sess.companies : n.cvr = "C1" /\ n.address = Null /\ n.lawyer_id = 1

C17_ReferentialIntegrity ==
    /\ \A c \in db.cases :
          /\ c.cvr # Null => \E co \in db.companies : co.cvr = c.cvr
          /\ c.lawyer_id # 0 => \E l \in db.lawyers : l.id = c.lawyer_id
    /\ \A co \in db.companies :
          co.lawyer_id # 0 => \E l \in db.lawyers : l.id = co.lawyer_id

(***************************************************************************)
(* Part III: properties of fetch_daily_insolvencies                        *)
(***************************************************************************)

\* the records of the run that are not skipped and name a lawyer
WithLawyer ==
    {i \in 1..Len(lg_records) :
        ~Falsy(lg_records[i].cvr) /\ ~Falsy(lg_records[i].lawyer_name)}

\* C14: after a committed run, two of its records that name a lawyer of the
\* same name in different firms have given two Lawyer rows of that name, and
\* no two Lawyer rows carry the same name and the same firm.
C14_LawyersKeyedByPair ==
    (lg_pc = "done" /\ lg_outcome = "returned") =>
        /\ \A i, j \in WithLawyer :
              (/\ lg_records[i].lawyer_name = lg_records[j].lawyer_name
               /\ lg_records[i].lawyer_firm # lg_records[j].lawyer_firm)
              => Cardinality({l \in lg_db.lawyers :
                                l.name = lg_records[i].lawyer_name}) >= 2
        /\ \A a, b \in lg_db.lawyers :
              (a.name = b.name /\ a.firm = b.firm) => a = b

\* C18: no upstream call of a run is issued while the session holds writes
\* that are neither committed nor rolled back.
C18_NoCallInOpenTransaction ==
    \A k \in 1..Len(lg_calls) : ~lg_calls[k].in_tx

(***************************************************************************)
(* Part IV: properties of api_messages_dekret                              *)
(***************************************************************************)

\* the message numbers of a list of notices, in order
RECURSIVE NumbersOf(_)
NumbersOf(rs) ==
    IF rs = <<>> THEN <<>> ELSE <<Head(rs).messageNumber>> \o NumbersOf(Tail(rs))

Matching(r) == r.sectionName = "Konkursboer" /\ r.messageTypeName = "Dekret"

Fetchable(r) == Matching(r) /\ r.messageNumber \notin {Null, ""}

\* C20 (as stated): when api_messages_dekret returns, the full document was
\* fetched for the matching notices of the search and for no other, the
\* results hold one entry for every matching notice, in order, and
\* resultCount is the number of matching notices.
C20_ExactlyTheMatching ==
    dk_outcome = "returned" =>
        LET want == NumbersOf(SelectSeq(dk_search, Matching)) IN
        /\ dk_fetched = want
        /\ NumbersOf(dk_out.results) = want
        /\ dk_out.resultCount = Len(want)

\* C20 (amended): when api_messages_dekret returns, the full document was
\* fetched once for every matching notice that carries a non-empty message
\* number and for no other notice, the results hold one entry for each of
\* them, in order, all of the bankruptcy section and of type decree, and
\* resultCount is their number; a matching notice without message number
\* is passed over.  When the call raises it returns nothing.
C20_MatchingWithNumber ==
    /\ dk_outcome = "returned" =>
          LET want == NumbersOf(SelectSeq(dk_search, Fetchable)) IN
          /\ dk_fetched = want
          /\ NumbersOf(dk_out.results) = want
          /\ dk_out.resultCount = Len(want)
          /\ \A i \in 1..Len(dk_out.results) : Matching(dk_out.results[i])
    /\ dk_outcome # "returned" => dk_out = NoOut
    /\ Len(dk_fetched) <= Len(SelectSeq(dk_search, Fetchable))

C20_Witness ==
    /\ dk_outcome = "returned"
    /\ Len(dk_search) = 3
    /\ dk_out.resultCount = 2
    /\ ~Matching(dk_search[2])
    /\ dk_search[2].messageNumber = "N2"
    /\ NumbersOf(dk_out.results) = <<"N1", "N2">>

\* C21: when the fetch or the validation of the full document of one
\* matching notice fails, only that notice is passed over: the call still
\* fetches every other matching notice of the day and returns.
C21_FailedDocumentSkipsOnlyItself ==
    (dk_pc = "done" /\ Len(dk_fetched) > 0) =>
        /\ dk_outcome = "returned"
        /\ dk_fetched = NumbersOf(SelectSeq(dk_search, Fetchable))

(***************************************************************************)
(* Part V: properties of normalize_document_inplace                        *)
(***************************************************************************)

\* the document of the message passed, None when the key is missing
DocPassed == IF nd_input.document = Absent THEN PyNone ELSE nd_input.document

\* the document passed is JSON text or an object
DocReadable ==
    \/ DocPassed.t = "dict"
    \/ DocPassed.t = "text" /\ json_loads(DocPassed.toks).ok

DocParsed ==
    IF DocPassed.t = "text" THEN json_loads(DocPassed.toks).val ELSE DocPassed

\* the parsed document is an object with the two required keys
DocComplete ==
    /\ DocReadable
    /\ DocParsed.t = "dict"
    /\ HasKey(DocParsed.members, fieldgroups)
    /\ HasKey(DocParsed.members, defaultfieldgroups)

\* equality of two Python values: the members of a dict in any order
PyEq(a, b) ==
    IF a.t = "dict" /\ b.t = "dict"
    THEN /\ Len(a.members) = Len(b.members)
         /\ \A i \in 1..Len(a.members) :
               \E j \in 1..Len(b.members) : a.members[i] = b.members[j]
    ELSE a = b

\* C22: normalize_document_inplace fails exactly when the document is
\* neither JSON text nor an object or the parsed document lacks one of the
\* keys fieldgroups and defaultfieldgroups; when it fails the message is as
\* it was passed; when it succeeds message.document is JSON text whose
\* parse equals _document_obj, and fieldGroups and defaultFieldGroups are
\* the values of the two keys.
C22_NormalizeContract ==
    nd_outcome # "none" =>
        /\ (nd_outcome # "returned") <=> ~DocComplete
        /\ nd_outcome # "returned" => nd_message = nd_input
        /\ nd_outcome = "returned" =>
              /\ nd_message.document.t = "text"
              /\ json_loads(nd_message.document.toks).ok
              /\ PyEq(json_loads(nd_message.document.toks).val,
                      nd_message._document_obj)
              /\ nd_message.fieldGroups =
                     DictGet(DocParsed.members, fieldgroups)
              /\ nd_message.defaultFieldGroups =
                     DictGet(DocParsed.members, defaultfieldgroups)

(***************************************************************************)
(* Part VI: properties of the asset extractors                             *)
(***************************************************************************)

Elements == ax_doc.elements

AssetsOut == ax_out.results

FetchOut == fx_out.results

Abs(n) == IF n < 0 THEN 0 - n ELSE n

\* the numbers parse_xbrl_assets reads from the elements it matches with a
\* local name, and those Fetch.parse_xbrl_assets reads
AssetNumbers(local) ==
    {TextValue(Elements[i].text).v :
        i \in {j \in 1..Len(Elements) :
                  /\ endswith(Elements[j].tag, local)
                  /\ TextValue(Elements[j].text).ok}}

FetchNumbers(key) ==
    {to_float(Elements[i].text).v :
        i \in {j \in 1..Len(Elements) :
                  /\ endswith(Elements[j].tag, key)
                  /\ to_float(Elements[j].text).ok
                  /\ to_float(Elements[j].text).v # 0}}

IsGreatest(v, V) == v \in V /\ \A w \in V : w <= v

\* C23: the output of an extractor holds at most one field per watched
\* tag, and the value of a field is the greatest of the numbers read from
\* the elements matched with its tag.
C23_MaxWins ==
    /\ ax_out.outcome = "returned" =>
          /\ \A i, j \in 1..Len(AssetsOut) :
                AssetsOut[i].tag = AssetsOut[j].tag => i = j
          /\ \A i \in 1..Len(AssetsOut) :
                IsGreatest(AssetsOut[i].value, AssetNumbers(AssetsOut[i].tag.local))
    /\ fx_out.outcome = "returned" =>
          /\ \A i, j \in 1..Len(FetchOut) :
                FetchOut[i].tag = FetchOut[j].tag => i = j
          /\ \A i \in 1..Len(FetchOut) :
                IsGreatest(FetchOut[i].value, FetchNumbers(FetchOut[i].tag))

C23_Witness ==
    /\ Len(Elements) = 2
    /\ \A i \in 1..2 : Elements[i].tag.local = Name("Vehicles")
    /\ TextValue(Elements[1].text).v = 1000
    /\ TextValue(Elements[2].text).v = 2500
    /\ ax_out.outcome = "returned"
    /\ Len(AssetsOut) = 1
    /\ AssetsOut[1].value = 2500
    /\ fx_out.outcome = "returned"
    /\ Len(FetchOut) = 1
    /\ FetchOut[1].value = 2500

\* C24: the value of a field is the number of greatest absolute value
\* among those read from the elements matched with its tag.
C24_GreatestMagnitudeWins ==
    /\ ax_out.outcome = "returned" =>
          \A i \in 1..Len(AssetsOut) :
              \A v \in AssetNumbers(AssetsOut[i].tag.local) :
                  Abs(v) <= Abs(AssetsOut[i].value)
    /\ fx_out.outcome = "returned" =>
          \A i \in 1..Len(FetchOut) :
              \A v \in FetchNumbers(FetchOut[i].tag) :
                  Abs(v) <= Abs(FetchOut[i].value)

\* the texts that hold a number other than zero, by the reading of the
\* extractor that is asked
HoldsNumber(i, local) ==
    /\ endswith(Elements[i].tag, local)
    /\ TextValue(Elements[i].text).ok
    /\ TextValue(Elements[i].text).v # 0

\* C25: parse_xbrl_assets emits a field for a watched name if and only if
\* one of the elements matched with it holds a number other than zero, and
\* never emits zero as a value.
C25_ZeroAndInvalidContributeNothing ==
    ax_out.outcome = "returned" =>
        /\ \A k \in 1..Len(ASSET_TAGS) :
              (\E i \in 1..Len(AssetsOut) : AssetsOut[i].tag = ASSET_TAGS[k][1])
              <=> (\E i \in 1..Len(Elements) : HoldsNumber(i, ASSET_TAGS[k][1].local))
        /\ \A i \in 1..Len(AssetsOut) : AssetsOut[i].value # 0

\* C26: a field is emitted for a watched name only when an element whose
\* local name is that name holds a number.
C26_LocalNameEquality ==
    /\ ax_out.outcome = "returned" =>
          \A i \in 1..Len(AssetsOut) :
              \E j \in 1..Len(Elements) :
                  Elements[j].tag.local = AssetsOut[i].tag.local
    /\ fx_out.outcome = "returned" =>
          \A i \in 1..Len(FetchOut) :
              \E j \in 1..Len(Elements) :
                  Elements[j].tag.local = FetchOut[i].tag

\* the place of a field in the canonical order of its extractor: the order
\* of ASSET_TAGS, and the list order (its length for a label it lacks)
AssetRank(f) == CHOOSE k \in 1..Len(ASSET_TAGS) : ASSET_TAGS[k][1] = f.tag

FetchRank(f) ==
    IF \E k \in 1..Len(order) : order[k] = f.label
    THEN CHOOSE k \in 1..Len(order) : order[k] = f.label
    ELSE Len(order) + 1

\* C27: the fields of an output stand in the canonical order.
C27_CanonicalOrder ==
    /\ ax_out.outcome = "returned" =>
          \A i, j \in 1..Len(AssetsOut) :
              i < j => AssetRank(AssetsOut[i]) < AssetRank(AssetsOut[j])
    /\ fx_out.outcome = "returned" =>
          \A i, j \in 1..Len(FetchOut) :
              i < j => FetchRank(FetchOut[i]) <= FetchRank(FetchOut[j])

C27_Witness ==
    /\ Len(Elements) = 2
    /\ Elements[1].tag.local = Name("PropertyPlantAndEquipment")
    /\ Elements[2].tag.local = <<"Other", "TangibleFixedAssets">>
    /\ ax_out.outcome = "returned"
    /\ Len(AssetsOut) = 2
    /\ AssetsOut[1].name = "Other tangible fixed assets"
    /\ fx_out.outcome = "returned"
    /\ Len(FetchOut) = 3
    /\ FetchOut[1].label = "Tangible assets (Danish GAAP)"
    /\ FetchOut[2].label = "Tangible assets (IFRS)"

\* a document holds an element of a name that the table of the extractor
\* watches
HoldsWatched(names) ==
    /\ ax_doc.kind = "bytes" /\ ax_doc.wellformed
    /\ \E i \in 1..Len(Elements) : \E k \in 1..Len(names) :
          endswith(Elements[i].tag, names[k])

AssetNames == [k \in 1..Len(ASSET_TAGS) |-> ASSET_TAGS[k][1].local]

FetchNames == [k \in 1..Len(FIELD_MAP) |-> FIELD_MAP[k][1]]

ThreeOutcomes(r, names) ==
    r.outcome # "none" =>
        /\ r.outcome # "returned" <=> (ax_doc.kind = "bytes" /\ ~ax_doc.wellformed)
        /\ (r.outcome = "returned" /\ r.results = <<>>)
           <=> (ax_doc.kind = "dict"
                \/ (ax_doc.kind = "bytes" /\ ax_doc.wellformed /\ ~HoldsWatched(names)))

\* C28: an extractor fails exactly on bytes that are no well-formed XML,
\* returns the empty list exactly on what is no XML payload and on a
\* document without a watched tag, and a list of fields otherwise.
C28_ThreeOutcomes ==
    /\ ThreeOutcomes(ax_out, AssetNames)
    /\ ThreeOutcomes(fx_out, FetchNames)

NotSkipped(records) == SelectSeq(records, LAMBDA item : ~Falsy(item.cvr))

\* the counts of fetch_daily_insolvencies are those of its records
LegacyCounts ==
    (lg_pc = "done" /\ lg_outcome = "returned") =>
        /\ lg_result.fetched = Len(lg_records)
        /\ lg_result.created + lg_result.updated = Len(NotSkipped(lg_records))
        /\ lg_same => lg_result.created = 0

\* C30: a run that returns hands its caller the counts: fetched is the
\* number of records of the listing, created + updated the number of
\* records not skipped, and created is 0 when the run repeats the records
\* of the run before it.
C30_RunReturnsCounts ==
    /\ LegacyCounts
    /\ (run_pc = "done" /\ run_outcome = "returned") => run_result # Null

(***************************************************************************)
(* The error of messagesearch_day, and its end                             *)
(***************************************************************************)

\* the requests of the call that were answered with a status raise_for_status
\* raises for
HttpFailures == {i \in 1..Len(reqlog) : reqlog[i].res = "HTTPError"}

\* the last of them
LastHttpFailure == CHOOSE i \in HttpFailures : \A j \in HttpFailures : j <= i

\* the call raised and every strategy has a request with one of the results rs
AllFailedWith(rs) ==
    /\ outcome = "raised"
    /\ \A a \in 1..Len(attempts) :
          \E i \in 1..Len(reqlog) : reqlog[i].attempt = a /\ reqlog[i].res \in rs

\* the error is the HTTP error of the latest strategy that met a status
\* other than 500, and the generic one only when there is none
LatestHttpErrorRaised ==
    IF HttpFailures # {}
    THEN /\ out.type = "HTTPError"
         /\ out.attempt = reqlog[LastHttpFailure].attempt
         /\ out.status >= 400 /\ out.status # 500
    ELSE out = RuntimeError =>
             \A i \in 1..Len(reqlog) : reqlog[i].res # "ok" => reqlog[i].res = "fault"

PageCountRead == outcome # "raised" /\ WonLog # <<>> /\ WonLog[1].res = "ok"

\* C40 (as stated): a strategy issues at most pageCount requests, pageCount
\* being the one its page 0 gave.
C40_AtMostPageCountRequests ==
    PageCountRead => Len(WonLog) <= page_count

\* at most five strategies, tried in order; the requests of a strategy ask
\* for the pages 0, 1, 2, .. in this order, so none is repeated; a request
\* for a page after page 0 is sent only for a page below pageCount
BoundedRequests ==
    /\ attempt \in 1..Len(attempts)
    /\ \A i \in 1..Len(reqlog) :
          /\ reqlog[i].attempt \in 1..5
          /\ reqlog[i].params.page =
                Cardinality({j \in 1..(i - 1) : reqlog[j].attempt = reqlog[i].attempt})
          /\ \A j \in 1..(i - 1) :
                /\ reqlog[j].attempt <= reqlog[i].attempt
                /\ reqlog[j].params # reqlog[i].params
    /\ (outcome = "running" /\ page > 0) =>
          /\ page < page_count
          /\ Len(WonLog) = page
          /\ WonLog[1].res = "ok"
    /\ PageCountRead => Len(WonLog) <= (IF page_count > 1 THEN page_count ELSE 1)

\* pageCount is the one of page 0 for as long as the strategy goes on
PageCountReadOnce ==
    (outcome = "running" /\ page > 0 /\ attempt' = attempt /\ outcome' # "raised")
        => page_count' = page_count

\* C40 (amended): a call of messagesearch_day ends, with a result or an
\* error, when each request returns or times out; it tries at most five
\* strategies, a strategy issues its page 0 request and then at most
\* pageCount - 1 more, pageCount read once from its page 0, and no request
\* is repeated within a strategy.
C40_TerminatesWithinBounds ==
    /\ []BoundedRequests
    /\ [][PageCountReadOnce]_vars
    /\ (outcome = "running") ~> (outcome # "running")

C40_Witness ==
    /\ outcome = "raised"
    /\ attempt = 5
    /\ Len(reqlog) = 11
    /\ \A a \in 1..4 : Cardinality({i \in 1..Len(reqlog) : reqlog[i].attempt = a}) >= 2

(***************************************************************************)
(* The transaction of fetch_daily_insolvencies                             *)
(***************************************************************************)

\* the step that ends a run with the commit of session_scope
LegacyCommits ==
    /\ lg_pc # "done"
    /\ lg_pc' = "done"
    /\ lg_outcome' = "returned"
    /\ lg_i' = Len(lg_records)

\* the written state changes in the commit after the last record only, which
\* writes what the session holds; a run an exception leaves has written
\* nothing
OneTransaction ==
    /\ lg_db' # lg_db => (LegacyCommits /\ lg_db' = lg_sess')
    /\ (lg_pc # "done" /\ lg_outcome' = "raised") =>
          (lg_db' = lg_db /\ lg_sess' = lg_db /\ lg_result' = NoCounts)

\* a run that returns has committed the rows of all its records
AllWritten ==
    (lg_pc = "done" /\ lg_outcome = "returned") =>
        /\ lg_sess = lg_db
        /\ \A i \in 1..Len(lg_records) :
              ~Falsy(lg_records[i].cvr) =>
                  \E r \in lg_db.insolvencies : r.cvr = lg_records[i].cvr

\* C36: a run of fetch_daily_insolvencies writes in one transaction: when a
\* storage operation (or anything else in the loop) raises for a record,
\* nothing of the run is committed, the writes of its earlier records
\* included, and the exception leaves the run; a run that returns has
\* committed all its writes together after its last record.
C36_OneTransactionPerRun ==
    /\ []AllWritten
    /\ [][OneTransaction]_vars

C36_Witness ==
    /\ lg_pc = "done"
    /\ lg_outcome = "raised"
    /\ Len(lg_records) = 2
    /\ lg_i = 1
    /\ ~Falsy(lg_records[1].cvr)
    /\ lg_calls # <<>>
    /\ lg_calls[Len(lg_calls)].idx = 1
    /\ lg_db = LegacyEmptyDb

\* no two rows of the written state with the same key
UniqueRows ==
    /\ \A a, b \in lg_db.insolvencies : a.cvr = b.cvr => a = b
    /\ \A a, b \in lg_db.assets : a.cvr = b.cvr => a = b
    /\ \A a, b \in lg_db.links : (a.ins = b.ins /\ a.lawyer = b.lawyer) => a = b

\* C37: after a run over any batch, also one that holds a record several
\* times, the written state holds at most one Insolvency per cvr and date,
\* at most one CompanyAssets per cvr and at most one InsolvencyLawyer per
\* insolvency and lawyer.
C37_OneRowPerKey ==
    (lg_pc = "done" /\ lg_outcome = "returned") => UniqueRows

(***************************************************************************)
(* Part VII: properties of overlapping runs                                *)
(***************************************************************************)

\* the tasks that are in their loop over the cases
InFlight == {r \in Runs : ov_run[r].pc \in {"loop", "commit"}}

\* C31: at most one ingestion run is in flight at any time: a trigger that
\* arrives while a run is in progress starts no second run beside it.
C31_SingleFlight == Cardinality(InFlight) <= 1

\* no two committed cases with one message number, no two companies with
\* one cvr
CaseAndCompanyKeysUnique ==
    /\ \A a, b \in ov_db.cases :
          (a.message_number = b.message_number /\ ~Falsy(a.message_number)) => a = b
    /\ \A a, b \in ov_db.companies : a.cvr = b.cvr => a = b

\* no two committed lawyers with one name and one firm, a missing firm
\* included
LawyerKeysUnique ==
    \A a, b \in ov_db.lawyers : (a.name = b.name /\ a.firm = b.firm) => a = b

\* a task goes through all its cases, whatever was rolled back
TasksContinue ==
    \A r \in Runs :
        /\ ov_run[r].outcome # "raised"
        /\ ov_run[r].pc = "done" => ov_run[r].idx = Len(ov_run[r].cases)
        /\ \A k \in ov_run[r].rolled : k <= ov_run[r].idx

\* C38: when two runs of run_daily_sync overlap and meet the same message
\* number, the same lawyer (name, firm), a lawyer without firm included, or
\* the same company, the committed rows still hold each key once; the run
\* that loses the race rolls back that case only and both go on.
C38_OverlapKeepsKeys ==
    /\ CaseAndCompanyKeysUnique
    /\ LawyerKeysUnique
    /\ TasksContinue

(***************************************************************************)
(* Part VIII: properties of the scheduler                                  *)
(***************************************************************************)
\* the indices of the schedulers that are running
RunningSchedulers == {i \in DOMAIN sc_made : sc_made[i].running}

\* a step that is a call of start_scheduler, a call of shutdown_scheduler,
\* 06:00 striking in Europe/Copenhagen
StartStep ==
    sc_hist' # sc_hist /\ sc_hist'[Len(sc_hist')] = Event("start_scheduler", "none")
ShutdownStep ==
    sc_hist' # sc_hist /\ sc_hist'[Len(sc_hist')] = Event("shutdown_scheduler", "none")
TriggerStep ==
    sc_hist' # sc_hist /\ sc_hist'[Len(sc_hist')] = Event("06:00", cet)

\* the job of every running scheduler is active
JobsActive ==
    \A i \in RunningSchedulers :
        \A k \in DOMAIN sc_made[i].jobs : ~sc_made[i].jobs[k].paused

\* a trigger invokes the job of the running scheduler once, and nothing when
\* no scheduler is running
TriggerInvokes ==
    TriggerStep =>
        IF SchedulerRunning
        THEN Len(sc_invoked') = 1 /\ sc_invoked'[1].func = sc_made[_scheduler].jobs[1].func
        ELSE sc_invoked' = <<>>

\* C32: after start_scheduler(job) the ingestion job is active (not paused)
\* and is invoked once at every daily 06:00 Europe/Copenhagen trigger for as
\* long as the scheduler is running; after shutdown_scheduler it is no longer
\* invoked.
C32_JobInvokedAtEveryTrigger == []JobsActive /\ [][TriggerInvokes]_vars

\* at most one scheduler is running; it is the global one and holds one job
OneRunningScheduler ==
    /\ Cardinality(RunningSchedulers) <= 1
    /\ \A i \in RunningSchedulers : i = _scheduler /\ Len(sc_made[i].jobs) = 1
    /\ _scheduler # NoScheduler => _scheduler \in RunningSchedulers

\* start_scheduler while a scheduler is running returns that scheduler and
\* makes none, adds no job; otherwise it makes a fresh running scheduler
StartReturns ==
    StartStep =>
        IF SchedulerRunning
        THEN /\ sc_ret' = _scheduler
             /\ UNCHANGED <<sc_made, _scheduler>>
        ELSE /\ Len(sc_made') = Len(sc_made) + 1
             /\ SubSeq(sc_made', 1, Len(sc_made)) = sc_made
             /\ sc_ret' = Len(sc_made')
             /\ _scheduler' = Len(sc_made')
             /\ sc_made'[Len(sc_made')].running
             /\ Len(sc_made'[Len(sc_made')].jobs) = 1

\* shutdown_scheduler stops the running scheduler, and changes nothing when
\* none is running
ShutdownStops ==
    ShutdownStep =>
        IF SchedulerRunning
        THEN RunningSchedulers' = {} /\ _scheduler' = NoScheduler
        ELSE UNCHANGED <<sc_made, _scheduler>>

\* C35: after any sequence of start_scheduler and shutdown_scheduler calls at
\* most one scheduler is running and it holds exactly one ingestion job:
\* start_scheduler while a scheduler is running returns that same scheduler
\* without creating a scheduler or adding a job, shutdown_scheduler when none
\* is running changes nothing, and start after shutdown creates a fresh
\* running scheduler.
C35_AtMostOneScheduler ==
    []OneRunningScheduler /\ [][StartReturns /\ ShutdownStops]_vars

\* start, start again, shutdown twice, start: the second scheduler runs
C35_Witness ==
    /\ sc_hist = <<Event("start_scheduler", "none"), Event("start_scheduler", "none"),
                   Event("shutdown_scheduler", "none"),
                   Event("shutdown_scheduler", "none"), Event("start_scheduler", "none")>>
    /\ Len(sc_made) = 2
    /\ RunningSchedulers = {2}
    /\ sc_ret = 2

(***************************************************************************)
(* Part IX: properties of the registry functions                           *)
(***************************************************************************)
\* the company requests among the requests of the latest call
CompanyRequests == SelectSeq(cv_log, LAMBDA q : q = "company")

\* C33: fetch_company_data retries on 403 after a cookie refresh: when the
\* company request returns 403, a request to the registry base URL is issued
\* to refresh cookies and then the company request is repeated exactly once;
\* at most two company requests are made per call and a second 403 is raised
\* as an error.
C33_RetryOnceAfterCookieRefresh ==
    (cv_call.fn = "fetch_company_data" /\ cv_call.impl \in {MainPy, FetchModule}) =>
        /\ cv_call.status = 403 => cv_log = <<"company", "base", "company">>
        /\ cv_call.status # 403 => cv_log = <<"company">>
        /\ Len(CompanyRequests) <= 2
        /\ (cv_call.status = 403 /\ cv_call.second = 403) =>
               cv_ret = Raised(<<"HTTPError", 403>>)

\* the status of a company under konkurs
InsolvencyStatus(st) == st = UNDERKONKURS

\* the hits of the latest search whose status is an insolvency status
InsolventHits == {i \in DOMAIN cv_call.enheder : InsolvencyStatus(cv_call.enheder[i].status)}

\* C34: search_company finds a company under konkurs: it returns the (cvr,
\* name) of the first search hit whose status is an insolvency status and
\* (None, None) when no hit has one; it never returns a company whose status
\* is not an insolvency status.
C34_FirstInsolventHit ==
    (cv_call.fn = "search_company" /\ cv_ret.outcome = "returned") =>
        IF InsolventHits = {}
        THEN cv_ret.value = <<Null, Null>>
        ELSE LET i == CHOOSE k \in InsolventHits : \A m \in InsolventHits : k <= m
             IN cv_ret.value = <<cv_call.enheder[i].cvr, cv_call.enheder[i].senesteNavn>>

====
